---- MODULE Spec2Model ----
(***************************************************************************)
(* Job orchestration of the LoRA fine-tuning backend.                      *)
(*                                                                         *)
(* The model follows ONE training job row (every statement of the code is  *)
(* keyed by the job id, so the rows of other jobs are never read or        *)
(* written by the steps below), its metric rows, and the chat sessions and *)
(* messages that reference it.  The database is PostgreSQL reached through *)
(* async sessions: every "await db.execute / db.commit" is a point where   *)
(* the event loop may run another coroutine, so each handler is a sequence *)
(* of steps, one per await.  A step's writes become visible at its commit; *)
(* a statement reads what is committed when it runs (READ COMMITTED).      *)
(*                                                                         *)
(* The specifications:                                                     *)
(*   Spec         the life of a job submitted to a fresh store: creation,  *)
(*                the background runner, its progress-writer tasks, and    *)
(*                the cancel / delete / delete-dataset requests.           *)
(*   SpecFair     Spec under the fairness of the event loop.               *)
(*   SpecStore    the request handlers applied to a stored database.       *)
(*   SpecSteps    Spec over the datasets and training configurations.      *)
(*   SpecTurn     chat turns over the outcomes of the tiers.               *)
(*   SpecDispatch chat turns over what decides the tier.                   *)
(*   SpecCache    direct calls of the standard tier.                       *)
(*   SpecRemote   direct calls of the remote tier.                         *)
(*   SpecHistory  chat turns, delete-session and delete-job requests that  *)
(*                overlap, with the row locks of their transactions.       *)
(***************************************************************************)
EXTENDS Integers, Sequences, FiniteSets, TLC

\* ---------------------------------------------------------------- bounds
\* trainer.state.max_steps of the modelled job: the number of optimiser
\* steps (and so of log callbacks carrying a loss) of a full training run.
MaxSteps == 2
\* training_config.num_epochs of the modelled job.
TotalEpochs == 1
\* Number of cancel requests issued over a behaviour.
MaxCancelCalls == 2
\* Number of delete requests issued over a behaviour.
MaxDeleteCalls == 2
\* Number of cancel requests, and of delete requests, issued over a
\* behaviour of the fair event loop.
MaxFairCalls == 1
\* Number of chat sessions a stored database holds for the job.
MaxSessions == 1
\* Number of chat turns posted over a behaviour.
MaxPosts == 2
\* Number of create-session requests issued over a behaviour.
MaxCreateCalls == 1
\* Number of words of the text a model generates in a turn.
MaxWords == 2
\* Number of requests that call the standard tier over a behaviour.
MaxRequests == 2
\* Number of delete-session requests served over a behaviour.
MaxSessionDeletes == 1
\* Largest number of records of the job's dataset and largest batch size.
MaxRecords == 4
MaxBatchSize == 2

\* ------------------------------------------------------- TrainingStatus
PENDING == "pending"
RUNNING == "running"
COMPLETED == "completed"
FAILED == "failed"
CANCELLED == "cancelled"
TrainingStatus == {PENDING, RUNNING, COMPLETED, FAILED, CANCELLED}
Terminal == {COMPLETED, FAILED, CANCELLED}

\* A NULL column.
NULL == "NULL"
\* training_jobs holds no row with the job's id.
NoJob == {}

\* ------------------------------------------------------------ texts
\* The progress texts _run_training stores in error_message while it sets
\* up (the source strings are Japanese; the labels keep them apart).
MsgDownloading == "status: downloading model"
MsgLoading == "status: loading model files"
MsgLora == "status: applying LoRA config"
MsgDataset == "status: preparing dataset"
\* start_training's text for a missing dataset.
MsgNoDataset == "Dataset not found"
\* str(e) of the StaleDataError the ORM raises when the UPDATE of a loaded
\* object matches no row.
MsgStale == "UPDATE statement on table 'training_jobs' expected to update 1 row(s); 0 were matched."
\* str(e) of the exception the ORM raises when an attribute of an expired
\* object is read where it cannot be loaded.
MsgExpired == "attribute of an expired object (a refresh would be needed)"
\* str(e) of the exceptions the external computation can raise: an
\* exception constructed without arguments has the empty message.
ExcMsgs == {"", "CUDA out of memory"}
\* str(final_model_path) and str(job_output_dir).
FinalModelPath == "/app/training_data/job_1/final_model"
JobOutputDir == "/app/training_data/job_1"

\* ------------------------------------------------------------ numbers
RECURSIVE GCD(_, _)
GCD(a, b) == IF b = 0 THEN a ELSE GCD(b, a % b)

\* A non-negative rational <<numerator, denominator>> in lowest terms: the
\* value of a Float column.
Rat(n, d) == LET g == GCD(n, d) IN <<n \div g, d \div g>>

\* progress = (global_step / max_steps) * 100
StepProgress(global_step, max_steps) == Rat(global_step * 100, max_steps)

\* int(logs["epoch"]) of the k-th log callback: the trainer reports the
\* fraction of epochs done, k / (max_steps / num_train_epochs).
LogEpoch(k, max_steps) == (k * TotalEpochs) \div max_steps


\* ------------------------------------------------------- total steps
\* The job's dataset, base model and training_config: the number of
\* records, the batch size, and whether the resolved name of the base
\* model contains "gemma-2-2b"; num_epochs is TotalEpochs and
\* gradient_accumulation_steps is the schema's default.
Configs ==
    [records : 1..MaxRecords, batch_size : 1..MaxBatchSize,
     gemma_2_2b : BOOLEAN]

\* The default of TrainingConfig.gradient_accumulation_steps, and the
\* value _run_training passes for a gemma-2-2b model.
DefaultAccumulation == 1
GemmaAccumulation == 8

Ceil(n, d) == (n + d - 1) \div d

\* job.total_steps as _run_training computes it before trainer.train(),
\* from the configured batch size whatever the base model.
PlannedSteps(c) == (c.records \div c.batch_size) * TotalEpochs

\* per_device_train_batch_size and gradient_accumulation_steps as
\* _run_training passes them to TrainingArguments.
batch_size(c) == IF c.gemma_2_2b THEN 1 ELSE c.batch_size
grad_accum(c) == IF c.gemma_2_2b THEN GemmaAccumulation ELSE DefaultAccumulation

\* The optimiser steps of one epoch: the batches of the epoch, the last
\* one short when the batch size does not divide the records, by the
\* accumulation, and at least one.
UpdateStepsPerEpoch(c) ==
    LET updates == Ceil(c.records, batch_size(c)) \div grad_accum(c)
    IN  IF updates > 1 THEN updates ELSE 1

\* trainer.state.max_steps.
TrainerMaxSteps(c) == UpdateStepsPerEpoch(c) * TotalEpochs

\* The configurations whose training takes at most MaxSteps steps.
JobConfigs == {c \in Configs : TrainerMaxSteps(c) <= MaxSteps}

\* One record a batch, a base model other than gemma-2-2b, and the most
\* records whose training takes at most MaxSteps steps.
DefaultConfig ==
    [records |-> MaxSteps \div TotalEpochs, batch_size |-> 1,
     gemma_2_2b |-> FALSE]

\* ------------------------------------------------------------- state
VARIABLES
    \* --- the committed database
    dataset,      \* TRUE while the dataset row the job references exists
    job,          \* the training_jobs rows with the job's id: one or none
    metrics,      \* the training_metrics rows with the job's id
    sessions,     \* ids of the chat_sessions rows with the job's id
    messages,     \* the chat_messages rows of those sessions
    \* --- the background task start_training(job_id)
    rpc,          \* its position
    err,          \* the message handed to _update_job_error
    global_step,  \* trainer.state.global_step
    pending,      \* log callbacks whose _save_metrics_safely task has not ended
    writing,      \* those whose task ran its statements and has not committed
    joblock,      \* the open transaction that updated the job's row, if any
    picked,       \* status the task found when it loaded the job (history)
    trainCalls,   \* number of trainer.train() invocations (history)
    \* --- the create-job request
    jpc,          \* its position
    jresp,        \* its response
    \* --- the delete-dataset request
    ddpc,         \* its position
    ddresp,       \* its response
    \* --- the cancel request in flight
    cpc, cread, cresp, ccalls,
    \* --- the delete request in flight and its uncommitted transaction
    dpc, dread, dresp, dcalls, dSel, dMsgs, dSess, dMet,
    dSnap,        \* the rows its waiting DELETE of messages saw when it began
    \* --- the chat turn in flight
    ppc, psid, presp,   \* per chat turn: position, session id, response
    pcalls,
    pbody,        \* per chat turn: the messages its response identifies
    now,          \* the database's clock: the start of the latest transaction
    pts,          \* per chat turn: the start of its open transaction, now()
    penv,         \* what the turn meets: the prompt and the tiers' outcomes
    config,       \* the job's dataset size and training_config
    \* --- the last create-session request
    sreq,         \* its body: job_id and model_name
    sresp,        \* its response: status code and detail
    spath,        \* create_session's local model_path
    sremote,      \* what the Ollama service held for it, "none" if not asked
    scalls,       \* number of create-session requests served
    \* --- direct calls of _generate_with_model, one per request
    gpc,          \* per request: the position of its call
    model_cache,  \* per request: its ChatService's model_cache entry of the job
    tokenizer_cache,  \* per request: its tokenizer_cache entry of the job
    gused,        \* per request: the model handle its generation used
    gtext,        \* per request: the text its call returned
    gload,        \* per request: how its load ended, "none" without one
    loads,        \* number of models loaded so far
    \* --- direct calls of _generate_with_ollama, one per request
    opc,          \* per request: the position of its call
    oout,         \* per request: how OllamaService.generate ended
    otext,        \* per request: the text its call returned
    \* --- the delete-session request in flight and its transaction
    xpc, xsid, xresp, xcalls,
    xMsgs,        \* the messages it deleted, uncommitted
    xSess,        \* the session it deleted, uncommitted
    xSnap         \* the rows its waiting DELETE of messages saw when it began

dbVars == <<dataset, job, metrics, sessions, messages>>
runVars ==
    <<rpc, err, global_step, pending, writing, joblock, picked, trainCalls>>
newJobVars == <<jpc, jresp>>
dropVars == <<ddpc, ddresp>>
cancelVars == <<cpc, cread, cresp, ccalls>>
deleteVars == <<dpc, dread, dresp, dcalls, dSel, dMsgs, dSess, dMet, dSnap>>
postVars == <<ppc, psid, presp, pcalls, pbody, now, pts>>
createVars == <<sreq, sresp, spath, sremote, scalls>>
cacheVars ==
    <<gpc, model_cache, tokenizer_cache, gused, gtext, gload, loads>>
sdelVars == <<xpc, xsid, xresp, xcalls, xMsgs, xSess, xSnap>>
envVars == <<penv, config>>
remoteVars == <<opc, oout, otext>>
chatVars ==
    <<postVars, createVars, envVars, remoteVars, cacheVars, sdelVars>>
vars ==
    <<dbVars, runVars, newJobVars, dropVars, cancelVars, deleteVars, chatVars>>

\* ------------------------------------------------------------ job rows
\* The row create_training_job inserts: the column defaults of TrainingJob.
NewJob ==
    [status |-> PENDING, progress |-> <<0, 1>>, current_epoch |-> 0,
     current_step |-> 0, total_steps |-> 0, error_message |-> NULL,
     output_dir |-> NULL, model_path |-> NULL]

\* The columns _run_training sets before its last commit.
CompletedRowNoPath(j) ==
    [j EXCEPT !.status = COMPLETED, !.progress = <<100, 1>>]
CompletedRow(j) ==
    [j EXCEPT !.status = COMPLETED, !.progress = <<100, 1>>,
              !.model_path = FinalModelPath]

\* The columns _update_job_error's UPDATE sets.
ErrorRowKeepStatus(j, msg) == [j EXCEPT !.error_message = msg]
ErrorRow(j, msg) == [j EXCEPT !.status = FAILED, !.error_message = msg]

\* The columns _save_metrics_safely's UPDATE sets, for log callback k.
ProgressRow(j, k) ==
    [j EXCEPT !.progress = StepProgress(global_step, TrainerMaxSteps(config)),
              !.current_epoch = LogEpoch(k, TrainerMaxSteps(config)),
              !.current_step = global_step,
              !.total_steps = TrainerMaxSteps(config)]

\* The metric row _save_metrics_safely adds for log callback k.
MetricRow(k) ==
    [cb |-> k, step |-> global_step,
     epoch |-> LogEpoch(k, TrainerMaxSteps(config))]

\* -------------------------------------------------- request responses
OK == "200"
BadRequest == "400"
NotFound == "404"
ServerError == "500"
NoResponse == "none"

\* The row select(TrainingJob).where(id == job_id) returns, when there is one.
Row == CHOOSE j \in job : TRUE

\* get_training_job: the status code of the response.
get_training_job == IF job = NoJob THEN NotFound ELSE OK

\* ------------------------------------------------ create / dataset
\* create_training_job, to the select of the dataset: 404 without a row.
create_training_job_select ==
    /\ jpc = "none"
    /\ IF dataset
       THEN jpc' = "commit" /\ UNCHANGED jresp
       ELSE jpc' = "done" /\ jresp' = NotFound
    /\ UNCHANGED <<dbVars, runVars, cancelVars, dropVars, deleteVars, chatVars>>

\* create_training_job: db.add(db_job); commit.  The row is inserted with
\* the column defaults; training_jobs.dataset_id carries no foreign key,
\* so the INSERT does not look at the dataset again.
create_training_job_commit ==
    /\ jpc = "commit"
    /\ job' = {NewJob}
    /\ jpc' = "refresh"
    /\ UNCHANGED <<dataset, metrics, sessions, messages, jresp>>
    /\ UNCHANGED <<runVars, cancelVars, dropVars, deleteVars, chatVars>>

\* create_training_job: db.refresh(db_job), then start_training is queued
\* as a background task and the row is answered.  With the row gone the
\* refresh raises, the handler answers 500 and queues nothing.
create_training_job_refresh ==
    /\ jpc = "refresh"
    /\ IF job = NoJob
       THEN jresp' = ServerError /\ UNCHANGED rpc
       ELSE jresp' = OK /\ rpc' = "queued"
    /\ jpc' = "done"
    /\ UNCHANGED <<dbVars, err, global_step, pending, writing, joblock, picked, trainCalls>>
    /\ UNCHANGED <<cancelVars, dropVars, deleteVars, chatVars>>

\* The handler of POST /jobs: its three steps.
create_training_job ==
    \/ create_training_job_select
    \/ create_training_job_commit
    \/ create_training_job_refresh

\* delete_dataset, to the select of the dataset: 404 without a row.
delete_dataset_select ==
    /\ ddpc = "none"
    /\ IF dataset
       THEN ddpc' = "commit" /\ UNCHANGED ddresp
       ELSE ddpc' = "done" /\ ddresp' = NotFound
    /\ UNCHANGED <<dbVars, runVars, newJobVars, cancelVars, deleteVars, chatVars>>

\* delete_dataset: db.delete(dataset); commit.  The row goes whatever jobs
\* reference it.
delete_dataset_commit ==
    /\ ddpc = "commit"
    /\ dataset' = FALSE
    /\ ddresp' = OK
    /\ ddpc' = "done"
    /\ UNCHANGED <<job, metrics, sessions, messages>>
    /\ UNCHANGED <<runVars, newJobVars, cancelVars, deleteVars, chatVars>>

\* ------------------------------------------------- the background task
\* The holder of the row lock an UPDATE of the job's row takes until its
\* transaction ends: none, the task's session inside _update_job_error, or
\* the session of the progress writer of log callback k.
NoLock == <<>>
RunnerLock == <<"runner">>
WriterLock(k) == <<"writer", k>>

\* An exception with message m raised inside start_training's try block:
\* "except Exception as e" catches it and calls _update_job_error(str(e)).
RaisePropagates(m) == err' = m /\ rpc' = "crashed"
Raise(m) == err' = m /\ rpc' = "error"

\* The flush of the ORM object `job` at db.commit(): an UPDATE of the
\* changed columns WHERE id = job_id.  When the row is gone the UPDATE
\* matches nothing, the ORM raises StaleDataError and rolls back, which
\* expires the object; an exception with the text `msg` reaches
\* start_training's handler.  The UPDATE waits while another open
\* transaction has updated the row.
OrmCommit(row, next, msg) ==
    /\ joblock = NoLock
    /\ IF job = NoJob
       THEN /\ Raise(msg)
            /\ UNCHANGED job
       ELSE /\ job' = {row}
            /\ rpc' = next
            /\ UNCHANGED err

\* A commit of start_training itself: the StaleDataError reaches the
\* handler as it is.
StartTrainingCommit(row, next) == OrmCommit(row, next, MsgStale)

\* A commit inside _run_training: its except clause formats job.id into
\* the log line before it re-raises; the object being expired, reading
\* job.id raises in turn, and this second exception is the one that
\* reaches start_training's handler.
RunTrainingCommit(row, next) == OrmCommit(row, next, MsgExpired)

\* start_training, to the select of the job: no row, return.
start_training_select_raises ==
    /\ rpc = "queued"
    /\ IF job = NoJob
       THEN Raise("Job not found") /\ picked' = "absent"
       ELSE rpc' = "loaded" /\ picked' = Row.status /\ UNCHANGED err
    /\ UNCHANGED <<dbVars, global_step, pending, writing, joblock, trainCalls>>
    /\ UNCHANGED <<newJobVars, cancelVars, dropVars, deleteVars, chatVars>>
start_training_select ==
    /\ rpc = "queued"
    /\ IF job = NoJob
       THEN rpc' = "done" /\ picked' = "absent"
       ELSE rpc' = "loaded" /\ picked' = Row.status
    /\ UNCHANGED <<dbVars, err, global_step, pending, writing, joblock, trainCalls>>
    /\ UNCHANGED <<newJobVars, cancelVars, dropVars, deleteVars, chatVars>>

\* start_training: job.status = RUNNING; commit.
start_training_running ==
    /\ rpc = "loaded"
    /\ StartTrainingCommit([Row EXCEPT !.status = RUNNING], "started")
    /\ UNCHANGED <<dataset, metrics, sessions, messages>>
    /\ UNCHANGED <<global_step, pending, writing, joblock, picked, trainCalls>>
    /\ UNCHANGED <<newJobVars, cancelVars, dropVars, deleteVars, chatVars>>

\* start_training: the select of the dataset; a missing dataset goes to
\* _update_job_error with the fixed text.
start_training_dataset ==
    /\ rpc = "started"
    /\ IF dataset
       THEN rpc' = "prepare" /\ UNCHANGED err
       ELSE rpc' = "error" /\ err' = MsgNoDataset
    /\ UNCHANGED <<dbVars, global_step, pending, writing, joblock, picked, trainCalls>>
    /\ UNCHANGED <<newJobVars, cancelVars, dropVars, deleteVars, chatVars>>

\* _run_training: mkdir; job.output_dir; commit.
run_training_output_dir ==
    /\ rpc = "prepare"
    /\ RunTrainingCommit([Row EXCEPT !.output_dir = JobOutputDir], "outdir")
    /\ UNCHANGED <<dataset, metrics, sessions, messages>>
    /\ UNCHANGED <<global_step, pending, writing, joblock, picked, trainCalls>>
    /\ UNCHANGED <<newJobVars, cancelVars, dropVars, deleteVars, chatVars>>

\* _run_training: the four commits that store a progress text in
\* error_message, each after the external call before it returned.
run_training_status ==
    /\ \E step \in {<<"outdir", MsgDownloading, "downloading">>,
                    <<"downloading", MsgLoading, "loading">>,
                    <<"loading", MsgLora, "lora">>,
                    <<"lora", MsgDataset, "dataset">>} :
          /\ rpc = step[1]
          /\ RunTrainingCommit([Row EXCEPT !.error_message = step[2]],
                               step[3])
    /\ UNCHANGED <<dataset, metrics, sessions, messages>>
    /\ UNCHANGED <<global_step, pending, writing, joblock, picked, trainCalls>>
    /\ UNCHANGED <<newJobVars, cancelVars, dropVars, deleteVars, chatVars>>

\* _run_training: dataset and trainer are ready; job.error_message = None;
\* job.total_steps; commit.
run_training_ready ==
    /\ rpc = "dataset"
    /\ RunTrainingCommit([Row EXCEPT !.error_message = NULL,
                                     !.total_steps = PlannedSteps(config)],
                         "ready")
    /\ UNCHANGED <<dataset, metrics, sessions, messages>>
    /\ UNCHANGED <<global_step, pending, writing, joblock, picked, trainCalls>>
    /\ UNCHANGED <<newJobVars, cancelVars, dropVars, deleteVars, chatVars>>

\* The positions whose next external call can raise: mkdir, the tokenizer
\* load, the model load, get_peft_model, the dataset preparation and the
\* trainer's construction.
RaisePcs == {"prepare", "downloading", "loading", "lora", "dataset"}

\* _run_training: an external call raises; the exception is logged,
\* re-raised and caught by start_training.
run_training_raises ==
    /\ rpc \in RaisePcs
    /\ \E m \in ExcMsgs : Raise(m)
    /\ UNCHANGED <<dbVars, global_step, pending, writing, joblock, picked, trainCalls>>
    /\ UNCHANGED <<newJobVars, cancelVars, dropVars, deleteVars, chatVars>>

\* trainer.train() and the two save calls, all synchronous: the event loop
\* runs nothing else meanwhile.  Each optimiser step calls log(), which
\* finds the loop running and creates one _save_metrics_safely task; the
\* tasks start at the runner's next await.
trainer_train ==
    /\ rpc = "ready"
    /\ global_step' = TrainerMaxSteps(config)
    /\ pending' = 1..TrainerMaxSteps(config)
    /\ trainCalls' = trainCalls + 1
    /\ rpc' = "trained"
    /\ UNCHANGED <<dbVars, err, picked, writing, joblock>>
    /\ UNCHANGED <<newJobVars, cancelVars, dropVars, deleteVars, chatVars>>

\* trainer.train() raises after n steps, or a save call raises after all.
trainer_train_raises ==
    /\ rpc = "ready"
    /\ \E n \in 0..TrainerMaxSteps(config), m \in ExcMsgs :
          /\ global_step' = n
          /\ pending' = 1..n
          /\ Raise(m)
    /\ trainCalls' = trainCalls + 1
    /\ UNCHANGED <<dbVars, picked, writing, joblock>>
    /\ UNCHANGED <<newJobVars, cancelVars, dropVars, deleteVars, chatVars>>

\* _run_training: status, progress and model_path; commit.
run_training_complete ==
    /\ rpc = "trained"
    /\ RunTrainingCommit(CompletedRow(Row), "done")
    /\ UNCHANGED <<dataset, metrics, sessions, messages>>
    /\ UNCHANGED <<global_step, pending, writing, joblock, picked, trainCalls>>
    /\ UNCHANGED <<newJobVars, cancelVars, dropVars, deleteVars, chatVars>>

\* _update_job_error: UPDATE ... WHERE id = job_id.  The statement waits
\* while another open transaction has updated the row, and holds the row
\* until the commit.  With no row nothing is held: either the statement
\* matches nothing, or the autoflush of the still dirty `job` object raises
\* StaleDataError again, which _update_job_error logs and swallows.
update_job_error_execute ==
    /\ rpc = "error"
    /\ joblock = NoLock
    /\ joblock' = IF job = NoJob THEN NoLock ELSE RunnerLock
    /\ rpc' = "error_commit"
    /\ UNCHANGED <<dbVars, err, global_step, pending, writing, picked, trainCalls>>
    /\ UNCHANGED <<newJobVars, cancelVars, dropVars, deleteVars, chatVars>>

\* _update_job_error: commit.  The row the UPDATE matched is stored with
\* the failed status and the message.  Then start_training returns.
update_job_error ==
    /\ rpc = "error_commit"
    /\ job' = IF joblock = RunnerLock THEN {ErrorRow(j, err) : j \in job} ELSE job
    /\ joblock' = IF joblock = RunnerLock THEN NoLock ELSE joblock
    /\ rpc' = "done"
    /\ UNCHANGED <<dataset, metrics, sessions, messages>>
    /\ UNCHANGED <<err, global_step, pending, writing, picked, trainCalls>>
    /\ UNCHANGED <<newJobVars, cancelVars, dropVars, deleteVars, chatVars>>

\* _save_metrics_safely for log callback k, in a session of its own:
\* execute(update ...), before which the session flushes the INSERT of the
\* metric row.  The UPDATE waits while another open transaction has updated
\* the job's row, and holds the row it matched until the commit.
save_metrics_safely_execute ==
    /\ joblock = NoLock
    /\ \E k \in pending \ writing :
          /\ writing' = writing \cup {k}
          /\ joblock' = IF job = NoJob THEN NoLock ELSE WriterLock(k)
    /\ UNCHANGED <<dbVars, rpc, err, global_step, pending, picked, trainCalls>>
    /\ UNCHANGED <<newJobVars, cancelVars, dropVars, deleteVars, chatVars>>

\* _save_metrics_safely for log callback k: commit.  The metric row and
\* the job's UPDATE are stored at once.  The task reads
\* trainer.state.global_step when it runs.
save_metrics_safely ==
    /\ \E k \in writing :
          /\ metrics' = metrics \cup {MetricRow(k)}
          /\ job' = IF joblock = WriterLock(k)
                   THEN {ProgressRow(j, k) : j \in job}
                   ELSE job
          /\ joblock' = IF joblock = WriterLock(k) THEN NoLock ELSE joblock
          /\ writing' = writing \ {k}
          /\ pending' = pending \ {k}
    /\ UNCHANGED <<dataset, sessions, messages>>
    /\ UNCHANGED <<rpc, err, global_step, picked, trainCalls>>
    /\ UNCHANGED <<newJobVars, cancelVars, dropVars, deleteVars, chatVars>>

\* What a writer that ends without a commit leaves: its transaction is
\* rolled back and the row it held is free.
WriterRollsBack(k) ==
    /\ pending' = pending \ {k}
    /\ writing' = writing \ {k}
    /\ joblock' = IF joblock = WriterLock(k) THEN NoLock ELSE joblock

\* _save_metrics_safely fails (no connection, a database error at a
\* statement or at the commit): the exception is logged and swallowed,
\* nothing is persisted.  A callback whose task log() could not create ends
\* the same way, log() swallowing that exception too.
save_metrics_fails_raises ==
    /\ \E k \in pending : WriterRollsBack(k)
    /\ rpc \in {"trained", "ready"}
    /\ Raise("")
    /\ UNCHANGED <<dbVars, global_step, picked, trainCalls>>
    /\ UNCHANGED <<newJobVars, cancelVars, dropVars, deleteVars, chatVars>>
save_metrics_fails ==
    /\ \E k \in pending : WriterRollsBack(k)
    /\ UNCHANGED <<dbVars, rpc, err, global_step, picked, trainCalls>>
    /\ UNCHANGED <<newJobVars, cancelVars, dropVars, deleteVars, chatVars>>


\* ------------------------------------------------------ cancel request
\* cancel_training_job's test of the status it read.
CancellableNotCancelled(st) == st # CANCELLED
Cancellable(st) == st \in {PENDING, RUNNING}

\* cancel_training_job, to the select of the job: 404 without a row, 400
\* for a status that cannot be cancelled.
cancel_training_job_select ==
    /\ cpc = "idle"
    /\ ccalls < MaxCancelCalls
    /\ IF job = NoJob
       THEN /\ cread' = "absent"
            /\ cresp' = NotFound
            /\ ccalls' = ccalls + 1
            /\ UNCHANGED cpc
       ELSE IF ~Cancellable(Row.status)
       THEN /\ cread' = Row.status
            /\ cresp' = BadRequest
            /\ ccalls' = ccalls + 1
            /\ UNCHANGED cpc
       ELSE /\ cread' = Row.status
            /\ cresp' = NoResponse
            /\ cpc' = "commit"
            /\ UNCHANGED ccalls
    /\ UNCHANGED <<dbVars, runVars, newJobVars, dropVars, deleteVars, chatVars>>

\* cancel_training_job: job.status = CANCELLED; commit.  The flush updates
\* the status column WHERE id = job_id; with the row gone it raises, the
\* handler rolls back and answers 500.  The UPDATE waits while another open
\* transaction has updated the row.
cancel_training_job_commit_with_message ==
    /\ cpc = "commit"
    /\ joblock = NoLock
    /\ IF job = NoJob
       THEN /\ cresp' = ServerError
            /\ UNCHANGED job
       ELSE /\ cresp' = OK
            /\ job' = {[Row EXCEPT !.status = CANCELLED,
                                   !.error_message = "Cancelled by user"]}
    /\ cpc' = "idle"
    /\ ccalls' = ccalls + 1
    /\ UNCHANGED cread
    /\ UNCHANGED <<dataset, metrics, sessions, messages>>
    /\ UNCHANGED <<runVars, newJobVars, dropVars, deleteVars, chatVars>>
cancel_training_job_commit ==
    /\ cpc = "commit"
    /\ joblock = NoLock
    /\ IF job = NoJob
       THEN /\ cresp' = ServerError
            /\ UNCHANGED job
       ELSE /\ cresp' = OK
            /\ job' = {[Row EXCEPT !.status = CANCELLED]}
    /\ cpc' = "idle"
    /\ ccalls' = ccalls + 1
    /\ UNCHANGED cread
    /\ UNCHANGED <<dataset, metrics, sessions, messages>>
    /\ UNCHANGED <<runVars, newJobVars, dropVars, deleteVars, chatVars>>

\* ------------------------------------------------------ delete request
\* delete_training_job's test of the status it read.
DeleteRefusedNever(st) == FALSE
DeleteRefused(st) == st = RUNNING

\* The messages that reference one of the sessions `sess` and that the
\* transaction that deleted `mine` still sees: the rows the foreign key of
\* chat_messages finds when those sessions are deleted.
Referencing(sess, msgs, mine) == {m \in msgs \ mine : m.sid \in sess}

\* The foreign key's query locks the referencing rows it reads, session
\* by session and oldest first: it waits when the first of them was
\* deleted by the other open transaction, whose rows `locked` are older
\* than any row committed since.
FkWaits(refs, locked) ==
    \E m \in refs \cap locked : \A n \in refs : m.sid <= n.sid

\* The transaction the waiting statement of delete_session waited for is
\* over and leaves the messages `msgs` and the sessions `sess`.  A waiting
\* DELETE of messages deletes the rows it saw when it began that are still
\* there, not the rows committed since.  A waiting DELETE of the session
\* has the row, if it is still there, and its foreign key is enforced: a
\* message that references the session makes the statement raise, which
\* aborts the transaction and releases its rows; the handler's rollback
\* and the response follow.
delete_session_resumes(msgs, sess) ==
    /\ IF xpc = "messages_wait"
       THEN /\ xMsgs' = xSnap \cap msgs
            /\ xpc' = "session"
            /\ UNCHANGED xSess
       ELSE IF xpc \in {"session_wait", "session_fk_wait"}
       THEN IF Referencing({xsid} \cap sess, msgs, xMsgs) # {}
            THEN /\ xpc' = "rollback"
                 /\ xMsgs' = {}
                 /\ xSess' = {}
            ELSE /\ xpc' = "commit"
                 /\ xSess' = {xsid} \cap sess
                 /\ UNCHANGED xMsgs
       ELSE UNCHANGED <<xpc, xMsgs, xSess>>
    /\ xSnap' = {}
    /\ UNCHANGED <<xsid, xresp, xcalls>>

\* The delete request ends: its transaction is over, whatever it marked is
\* forgotten.
DeleteEnds(resp) ==
    /\ dresp' = resp
    /\ dpc' = "idle"
    /\ dcalls' = dcalls + 1
    /\ dSel' = {}
    /\ dMsgs' = {}
    /\ dSess' = {}
    /\ dMet' = {}
    /\ dSnap' = {}

\* delete_training_job, to the select of the job: 404 without a row, 400
\* for a running job.
delete_training_job_select ==
    /\ dpc = "idle"
    /\ dcalls < MaxDeleteCalls
    /\ IF job = NoJob
       THEN dread' = "absent" /\ DeleteEnds(NotFound)
       ELSE IF DeleteRefused(Row.status)
       THEN dread' = Row.status /\ DeleteEnds(BadRequest)
       ELSE /\ dread' = Row.status
            /\ dresp' = NoResponse
            /\ dpc' = "sessions"
            /\ UNCHANGED <<dcalls, dSel, dMsgs, dSess, dMet, dSnap>>
    /\ UNCHANGED <<dbVars, runVars, newJobVars, cancelVars, dropVars, chatVars>>

\* delete_training_job: select the ids of the job's chat sessions.  With
\* none, the DELETE of messages is skipped.
delete_training_job_sessions ==
    /\ dpc = "sessions"
    /\ dSel' = sessions
    /\ dpc' = IF sessions = {} THEN "del_sessions" ELSE "del_messages"
    /\ UNCHANGED <<dread, dresp, dcalls, dMsgs, dSess, dMet, dSnap>>
    /\ UNCHANGED <<dbVars, runVars, newJobVars, cancelVars, dropVars, chatVars>>

\* delete_training_job: DELETE the messages of the selected sessions.  The
\* statement sees the rows committed when it begins, and waits while
\* another open transaction has deleted one of them.
delete_training_job_messages ==
    /\ dpc = "del_messages"
    /\ LET snapshot == {m \in messages : m.sid \in dSel}
       IN  IF snapshot \cap xMsgs # {}
           THEN /\ dSnap' = snapshot
                /\ dpc' = "del_messages_wait"
                /\ UNCHANGED dMsgs
           ELSE /\ dMsgs' = snapshot
                /\ dpc' = "del_sessions"
                /\ UNCHANGED dSnap
    /\ UNCHANGED <<dread, dresp, dcalls, dSel, dSess, dMet>>
    /\ UNCHANGED <<dbVars, runVars, newJobVars, cancelVars, dropVars, chatVars>>

\* delete_training_job: DELETE the sessions with the job's id.  The
\* statement takes the rows in the order of their ids: at a row that
\* another open transaction has deleted it waits for that transaction,
\* holding the rows it has taken.  With all rows taken the foreign key of
\* chat_messages is enforced: its query waits, the rows held, when it
\* reads a message that another open transaction has deleted; a message
\* that still references one of the sessions makes the statement raise,
\* which aborts the transaction and releases its rows; the handler's
\* rollback and the response follow.
delete_training_job_del_sessions ==
    /\ dpc = "del_sessions"
    /\ LET blocked == sessions \cap xSess
           refs == Referencing(sessions, messages, dMsgs)
       IN  IF blocked # {}
           THEN /\ dSess' = {s \in sessions : \A b \in blocked : s < b}
                /\ dpc' = "del_sessions_wait"
                /\ UNCHANGED <<dresp, dcalls, dSel, dMsgs, dMet, dSnap>>
                /\ UNCHANGED sdelVars
           ELSE IF FkWaits(refs, xMsgs)
           THEN /\ dSess' = sessions
                /\ dpc' = "del_sessions_fk_wait"
                /\ UNCHANGED <<dresp, dcalls, dSel, dMsgs, dMet, dSnap>>
                /\ UNCHANGED sdelVars
           ELSE IF refs # {}
           THEN /\ dpc' = "rollback"
                /\ dMsgs' = {}
                /\ dSess' = {}
                /\ UNCHANGED <<dresp, dcalls, dSel, dMet, dSnap>>
                /\ delete_session_resumes(messages, sessions)
           ELSE /\ dSess' = sessions
                /\ dpc' = "del_metrics"
                /\ UNCHANGED <<dresp, dcalls, dSel, dMsgs, dMet, dSnap>>
                /\ UNCHANGED sdelVars
    /\ UNCHANGED dread
    /\ UNCHANGED <<dbVars, runVars, newJobVars, cancelVars, dropVars>>
    /\ UNCHANGED <<postVars, createVars, envVars, remoteVars, cacheVars>>

\* delete_training_job: a statement has raised and the transaction is
\* aborted; the handler's "await db.rollback()" returns and it answers
\* 500.
delete_training_job_rollback ==
    /\ dpc = "rollback"
    /\ DeleteEnds(ServerError)
    /\ UNCHANGED dread
    /\ UNCHANGED <<dbVars, runVars, newJobVars, cancelVars, dropVars, chatVars>>

\* delete_training_job: DELETE the metrics with the job's id
\* (training_metrics.job_id carries no foreign key).
delete_training_job_metrics ==
    /\ dpc = "del_metrics"
    /\ dMet' = metrics
    /\ dpc' = "commit"
    /\ UNCHANGED <<dread, dresp, dcalls, dSel, dMsgs, dSess, dSnap>>
    /\ UNCHANGED <<dbVars, runVars, newJobVars, cancelVars, dropVars, chatVars>>

\* delete_training_job: db.delete(job); commit.  A session that references
\* the job and is not among the deleted ones violates chat_sessions'
\* foreign key.  Otherwise everything the transaction deleted goes at once.
\* The DELETE of the job's row waits while another open transaction has
\* updated the row.
delete_training_job_commit ==
    /\ dpc = "commit"
    /\ joblock = NoLock
    /\ IF sessions \ dSess # {}
       THEN /\ DeleteEnds(ServerError)
            /\ delete_session_resumes(messages, sessions)
            /\ UNCHANGED <<job, metrics, sessions, messages>>
       ELSE /\ DeleteEnds(OK)
            /\ delete_session_resumes(messages \ dMsgs, sessions \ dSess)
            /\ messages' = messages \ dMsgs
            /\ sessions' = sessions \ dSess
            /\ metrics' = metrics \ dMet
            /\ job' = NoJob
    /\ UNCHANGED <<dataset, dread>>
    /\ UNCHANGED <<runVars, newJobVars, cancelVars, dropVars>>
    /\ UNCHANGED <<postVars, createVars, envVars, remoteVars, cacheVars>>


\* ------------------------------------------------------ create session
\* The id of the modelled job, as a request's job_id.
TheJob == "job 1"
\* A model name a request can send for a session on the Ollama service.
OllamaModel == "llama3:latest"

\* The body of no request, and the response of no request.
NoRequest == [job_id |-> NULL, model_name |-> NULL]
NoReply == [code |-> NoResponse, detail |-> ""]

\* An HTTP response: the status code and the detail text.
Reply(code, detail) == [code |-> code, detail |-> detail]

\* The ValueError texts of create_session, and str(e) of the TypeError of
\* the ORM constructor and of the NOT NULL violation of the INSERT, as the
\* route wraps them.
ErrJobNotFound == "Training job 1 not found"
ErrNoModelPath == "Training job 1 has no model path"
ErrOllamaNotFound == "Ollama model llama3:latest not found"
ErrNoBinding == "Either job_id or model_name must be provided"
ErrConstructor == "Failed to create session: 'model_name' is an invalid keyword argument for ChatSession"
ErrNotNull == "Failed to create session: null value violates not-null constraint"

\* The attributes of the ORM class ChatSession (its columns and its
\* relationship), and the keyword arguments create_session constructs it
\* with.  The declarative constructor raises TypeError for a keyword that
\* is no attribute of the class.
ChatSessionAttrs ==
    {"id", "name", "job_id", "model_path", "settings", "created_at",
     "updated_at", "training_job"}
ChatSessionKwargs == {"name", "job_id", "model_name", "model_path", "settings"}
ConstructorAccepts(kwargs) == kwargs \subseteq ChatSessionAttrs

\* The branch create_session takes: "if session_data.job_id ... elif
\* session_data.model_name ... else".  A body with both takes the job's.
BindingOllamaByDefault(req) ==
    IF req.job_id # NULL THEN "job" ELSE "ollama"
Binding(req) ==
    IF req.job_id # NULL THEN "job"
    ELSE IF req.model_name # NULL THEN "ollama"
    ELSE "none"

\* What the Ollama service holds when create_session asks for a model: the
\* model is listed, it is not listed, or the service does not answer.
RemoteStates == {"present", "absent", "unreachable"}

\* OllamaService.check_model_exists: whether list_models names the model;
\* an exception of list_models is logged and answered False.
check_model_exists_optimistic(remote) == remote # "absent"
check_model_exists(remote) == remote = "present"

\* The id the sequence of chat_sessions gives the next row.
NewSessionId == MaxSessions + 1 + scalls

\* create_session behind POST /sessions.  The body was parsed by FastAPI,
\* which validates the fields' types only (the model_validate classmethod
\* of ChatSessionCreate is not what FastAPI calls).  `remote` is the state
\* of the Ollama service, asked only in the branch of a model name, and
\* `exists` the answer of check_model_exists.  ValueError becomes 400, any other
\* exception 500.  The select of the job and the raise that follows have no
\* await between them; the INSERT is reached only with a constructed row.
create_session ==
    /\ scalls < MaxCreateCalls
    /\ \E jid \in {NULL, TheJob}, mn \in {NULL, OllamaModel},
          remote \in RemoteStates :
          LET req == [job_id |-> jid, model_name |-> mn]
              b == Binding(req)
              exists == check_model_exists(remote)
              model_path ==
                  IF b = "job" /\ job # NoJob THEN Row.model_path ELSE NULL
              raised ==
                  IF b = "job" /\ job = NoJob
                  THEN Reply(BadRequest, ErrJobNotFound)
                  ELSE IF b = "job" /\ Row.model_path = NULL
                  THEN Reply(BadRequest, ErrNoModelPath)
                  ELSE IF b = "ollama" /\ ~exists
                  THEN Reply(BadRequest, ErrOllamaNotFound)
                  ELSE IF b = "none"
                  THEN Reply(BadRequest, ErrNoBinding)
                  ELSE IF ~ConstructorAccepts(ChatSessionKwargs)
                  THEN Reply(ServerError, ErrConstructor)
                  ELSE IF jid = NULL \/ model_path = NULL
                  THEN Reply(ServerError, ErrNotNull)
                  ELSE NoReply
          IN  /\ sreq' = req
              /\ spath' = model_path
              /\ sremote' = IF b = "ollama" THEN remote ELSE "none"
              /\ IF raised = NoReply
                 THEN /\ sessions' = sessions \cup {NewSessionId}
                      /\ sresp' = Reply(OK, "")
                 ELSE /\ sessions' = sessions
                      /\ sresp' = raised
    /\ scalls' = scalls + 1
    /\ UNCHANGED <<dataset, job, metrics, messages>>
    /\ UNCHANGED <<runVars, newJobVars, cancelVars, dropVars, deleteVars, postVars, envVars, remoteVars, cacheVars, sdelVars>>

\* ---------------------------------------------------------------- texts
\* A text is a sequence of words, the empty text is <<>>; strip() and the
\* blanks between words are not represented.  The fixed replies of the
\* source are Japanese sentences; each is one word here, labelled in
\* English.
EmptyText == <<>>
\* generate_response's except branch, and _generate_with_model's.
ErrorText == <<"[an error occurred]">>
\* _generate_with_model's reply to a TimeoutError.
TimeoutText == <<"[model loading takes long; simple reply instead]">>
\* _generate_with_model's last reply when no trigger matches.
GenericText == <<"[I see. shall we talk about something else?]">>
\* _generate_with_ollama's replies to an empty answer and to an exception.
OllamaEmptyText == <<"[sorry, no response could be generated]">>
OllamaErrorText == <<"[an error occurred while generating with Ollama]">>
\* _generate_with_neural_engine's reply to an exception.
NeuralEngineErrorText == <<"[an error occurred while generating with Neural Engine]">>

\* The words of the texts the models produce and the users send.
UserMark == "User:"
BotMark == "Bot:"
EndOfText == "<|endoftext|>"
NoIdea == "I have no idea"
Digits == {"42"}
\* The characters the digits test removes, and the single punctuation marks.
DotComma == {".", ","}
Punctuation == {"!", "?", ".", ",", ";", ":"}
\* prefixes_to_remove
Prefixes == {"Bot:", "Assistant:", "AI:", "Response:", "Reply:"}

\* simple_responses, in the order of the dict: trigger and canned reply.
simple_responses ==
    <<  <<"ohayou", <<"[good morning!]">> >>,
        <<"konnichiwa", <<"[hello!]">> >>,
        <<"konbanwa", <<"[good evening!]">> >>,
        <<"arigatou", <<"[you are welcome.]">> >>,
        <<"genki", <<"[yes, I am fine!]">> >>,
        <<"tenki", <<"[nice weather today.]">> >>,
        <<"sayounara", <<"[goodbye, see you again.]">> >>  >>

\* "w in text"
Contains(text, w) == \E i \in 1..Len(text) : text[i] = w

\* text.split(w)[0]: the part before the first w.
BeforeFirst(text, w) ==
    IF ~Contains(text, w) THEN text
    ELSE LET i == CHOOSE k \in 1..Len(text) :
                     text[k] = w /\ \A m \in 1..(k - 1) : text[m] # w
         IN  SubSeq(text, 1, i - 1)

\* text.split(w)[-1]: the part after the last w.
AfterLast(text, w) ==
    IF ~Contains(text, w) THEN text
    ELSE LET i == CHOOSE k \in 1..Len(text) :
                     text[k] = w /\ \A m \in (k + 1)..Len(text) : text[m] # w
         IN  SubSeq(text, i + 1, Len(text))

\* The first prefix of prefixes_to_remove the text starts with is removed.
RemovePrefix(text) ==
    IF text # <<>> /\ text[1] \in Prefixes THEN Tail(text) ELSE text

\* response.replace(" ", "").replace(".", "").replace(",", "").isdigit()
JustNumbers(text) ==
    LET rest == SelectSeq(text, LAMBDA w : w \notin DotComma)
    IN  /\ rest # <<>>
        /\ \A i \in 1..Len(rest) : rest[i] \in Digits

\* len(response.strip()) == 1 and response.strip() in "!?.,;:"
SinglePunctuation(text) == Len(text) = 1 /\ text[1] \in Punctuation

\* The filter of "clearly nonsensical" responses.
FilterLowQuality(text) ==
    IF text # <<>> /\ (JustNumbers(text) \/ SinglePunctuation(text))
    THEN <<>>
    ELSE text

\* The loop over simple_responses: the first canned reply whose trigger
\* the prompt contains replaces the response; without a match the response
\* stays, and an empty one becomes the generic reply.
RECURSIVE LexicalFallbackFrom(_, _, _)
LexicalFallbackFrom(prompt, response, i) ==
    IF i > Len(simple_responses)
    THEN IF response = <<>> THEN GenericText ELSE response
    ELSE IF Contains(prompt, simple_responses[i][1]) THEN simple_responses[i][2]
    ELSE LexicalFallbackFrom(prompt, response, i + 1)

\* The lexical fallback of an empty response.
LexicalFallback(prompt) == LexicalFallbackFrom(prompt, <<>>, 1)

\* The text the tokenizer decodes from all of outputs[0]: the formatted
\* prompt "User: {prompt} Bot:" and the new tokens.
FullOutput(prompt, new_text) == <<UserMark>> \o prompt \o <<BotMark>> \o new_text

\* _generate_with_model's cleaned response, for a generation that
\* returned: `has_new` is len(outputs[0]) > input_length, `new_text` the
\* decoded new tokens.  The text is cut at the user mark and at the end
\* mark, loses a role prefix, and is emptied when it is nonsensical.
CleanedText(has_new, new_text) ==
    LET decoded ==
            IF has_new
            THEN BeforeFirst(BeforeFirst(new_text, UserMark), EndOfText)
            ELSE <<>>
    IN  FilterLowQuality(RemovePrefix(decoded))

\* _generate_with_model after the model is loaded: the cleaned response;
\* when it is empty, what follows the last bot mark of the full output;
\* when that is empty or inappropriate, the loop over simple_responses.
CleanResponse(prompt, has_new, new_text) ==
    LET cleaned == CleanedText(has_new, new_text)
        alt ==
            IF has_new
            THEN AfterLast(FullOutput(prompt, new_text), BotMark)
            ELSE <<>>
    IN  IF cleaned # <<>> THEN cleaned
        ELSE IF alt = <<>> \/ Contains(alt, UserMark) \/ Contains(alt, NoIdea)
        THEN LexicalFallbackFrom(prompt, alt, 1)
        ELSE alt

\* _generate_with_model: with the job's model not cached it is loaded
\* first.  `load` is the outcome of _load_model ("ok", "timeout", "error"),
\* `gen` the outcome of the generation ("ok", "error").
generate_with_model_raising(cached, load, gen, prompt, has_new, new_text) ==
    IF ~cached /\ load # "ok" THEN ErrorText
    ELSE IF gen = "error" THEN ErrorText
    ELSE CleanResponse(prompt, has_new, new_text)
generate_with_model(cached, load, gen, prompt, has_new, new_text) ==
    IF ~cached /\ load = "timeout" THEN TimeoutText
    ELSE IF ~cached /\ load = "error" THEN ErrorText
    ELSE IF gen = "error" THEN ErrorText
    ELSE CleanResponse(prompt, has_new, new_text)

\* str.strip(): the text without its leading and trailing blanks.
Blank == " "
RECURSIVE Strip(_)
Strip(text) ==
    IF text = <<>> THEN <<>>
    ELSE IF Head(text) = Blank THEN Strip(Tail(text))
    ELSE IF text[Len(text)] = Blank
    THEN Strip(SubSeq(text, 1, Len(text) - 1))
    ELSE text

\* _generate_with_ollama: `ok` is whether OllamaService.generate returned,
\* `answer` the "response" of what it returned.  The whole body is in a
\* try block whose except branch returns the failure text, so the call
\* returns a text on every path.
generate_with_ollama_generic_error(ok, answer) ==
    IF ~ok THEN ErrorText
    ELSE IF Strip(answer) = <<>> THEN OllamaEmptyText
    ELSE Strip(answer)
generate_with_ollama(ok, answer) ==
    IF ~ok THEN OllamaErrorText
    ELSE IF Strip(answer) = <<>> THEN OllamaEmptyText
    ELSE Strip(answer)

\* _generate_with_neural_engine: every exception inside is answered with
\* the error text; otherwise the (never empty) reply it builds.
NeuralEngineText == <<"[neural engine reply]">>
generate_with_neural_engine(ok) ==
    IF ok THEN NeuralEngineText ELSE NeuralEngineErrorText

\* --------------------------------------------------- what a turn meets
\* The prompt of the turn and the outcomes of the external calls of the
\* tiers: the Ollama service (generate returned or not, its stripped
\* answer), the Neural Engine ("unavailable", or available and then
\* "load_fails", "fails" inside the generation, or "ok"), _load_model
\* ("ok", "timeout", "error"), model.generate ("ok", "error"), and the new
\* tokens it produced.
DefaultEnv ==
    [prompt |-> <<"hello">>, ollama_ok |-> TRUE, ollama_answer |-> <<"hi">>,
     ne |-> "unavailable", load |-> "ok", gen |-> "ok",
     has_new |-> TRUE, new_text |-> <<"hello">>]

Prompts == {<<"hello">>, <<"konnichiwa">>, <<"tenki", "arigatou">>}
Words ==
    {"hello", "42", ".", "!", UserMark, BotMark, EndOfText, NoIdea}
\* The texts of at most MaxWords words.
NewTexts == UNION {[1..n -> Words] : n \in 0..MaxWords}

\* The turns of a session of the job: every output of the model under a
\* Neural Engine that is absent or fails to load; the failures of the
\* load and of the generation; a Neural Engine that generates or fails;
\* and the answers and the failure of the Ollama service.
TurnEnvs ==
    {[DefaultEnv EXCEPT !.prompt = p, !.ne = n, !.new_text = t] :
        p \in Prompts, n \in {"unavailable", "load_fails"}, t \in NewTexts}
    \cup
    {[DefaultEnv EXCEPT !.prompt = p, !.ne = n, !.has_new = FALSE,
                        !.new_text = <<>>, !.load = l, !.gen = g] :
        p \in Prompts, n \in {"unavailable", "load_fails"},
        l \in {"ok", "timeout", "error"}, g \in {"ok", "error"}}
    \cup
    {[DefaultEnv EXCEPT !.ne = n] : n \in {"ok", "fails"}}
    \cup
    {[DefaultEnv EXCEPT !.ollama_ok = o, !.ollama_answer = a] :
        o \in BOOLEAN, a \in {<<>>, <<"hi">>}}

\* ----------------------------------------------------------- chat turn
SessionIds == 1..MaxSessions
USER == "user"
ASSISTANT == "assistant"

\* The ids a client can send: those of the stored sessions and those the
\* sequence gives to sessions created later.
RequestableIds == 1..(MaxSessions + MaxCreateCalls)

\* A chat_messages row: its session, the turn that wrote it, its role, its
\* content and its timestamp (server_default=func.now(): the start of the
\* transaction that inserts it), by which a session's history is ordered.
Message(sid, turn, role, content, ts) ==
    [sid |-> sid, turn |-> turn, role |-> role, content |-> content,
     ts |-> ts]

\* The ChatSession object the select of generate_response loads: the
\* columns of the row, every stored session being one of the job's.
SessionObject(sid) ==
    [id |-> sid, job_id |-> TheJob, model_path |-> FinalModelPath]

\* getattr(obj, name) of a loaded object, for a name the class defines.
Attr(obj, name) == IF name \in DOMAIN obj THEN obj[name] ELSE NULL

\* The text generate_response stores as the assistant's message.  The
\* tiers are chosen inside its try block, starting with the test
\* "if session.model_name": reading an attribute the ORM class does not
\* define raises AttributeError, which the except branch answers with the
\* error text.  The request's ChatService is new, so its caches are empty.
generate_response_text(session, env) ==
    IF "model_name" \notin ChatSessionAttrs
    THEN ErrorText
    ELSE IF Attr(session, "model_name") # NULL
    THEN generate_with_ollama(env.ollama_ok, env.ollama_answer)
    ELSE IF session.job_id # NULL /\ env.ne \in {"ok", "fails"}
    THEN generate_with_neural_engine(env.ne = "ok")
    ELSE generate_with_model(FALSE, env.load, env.gen, env.prompt,
                             env.has_new, env.new_text)

\* The tiers generate_response calls for the turn, by the same tests.
generate_response_tiers_by_model_path(session, env) ==
    IF Attr(session, "model_path") # NULL
    THEN {"ollama"}
    ELSE IF session.job_id # NULL /\ env.ne # "unavailable"
    THEN {"neural_engine", "model"}
    ELSE {"model"}
generate_response_tiers(session, env) ==
    IF "model_name" \notin ChatSessionAttrs
    THEN {}
    ELSE IF Attr(session, "model_name") # NULL
    THEN {"ollama"}
    ELSE IF session.job_id # NULL /\ env.ne \in {"ok", "fails"}
    THEN {"neural_engine"}
    ELSE IF session.job_id # NULL /\ env.ne = "load_fails"
    THEN {"neural_engine", "model"}
    ELSE {"model"}

\* An INSERT into chat_messages takes a key-share lock on the session row
\* it references, so it waits while a transaction that deleted that row is
\* still open.
SessionRowLocked(sid) == sid \in dSess \/ sid \in xSess

\* The chat turns of a behaviour; turns of different requests overlap.
Turns == 1..MaxPosts

\* The messages a ChatGenerateResponse identifies: its message_id is the
\* id of the assistant message (or of the error message) just stored; its
\* other fields are the text and the session id.
ChatGenerateResponse(assistant_message) == {assistant_message}

\* Turn t's session begins a transaction: its first statement after the
\* session was opened or after a commit.
Begins(t) ==
    /\ now' = now + 1
    /\ pts' = [pts EXCEPT ![t] = now + 1]

\* The chat turn ends.
PostEnds(t, resp) ==
    /\ presp' = [presp EXCEPT ![t] = resp]
    /\ ppc' = [ppc EXCEPT ![t] = "idle"]
    /\ pcalls' = pcalls + 1

\* generate_response, to the select of the session: ValueError (400)
\* without a row.
generate_response_select(t) ==
    /\ ppc[t] = "idle"
    /\ presp[t] = NoResponse
    /\ \E sid \in RequestableIds :
          /\ psid' = [psid EXCEPT ![t] = sid]
          /\ IF sid \in sessions
             THEN /\ ppc' = [ppc EXCEPT ![t] = "user"]
                  /\ Begins(t)
                  /\ UNCHANGED <<presp, pcalls>>
             ELSE /\ PostEnds(t, BadRequest)
                  /\ UNCHANGED <<now, pts>>
    /\ UNCHANGED pbody
    /\ UNCHANGED <<dbVars, runVars, newJobVars, cancelVars, dropVars, deleteVars, createVars, envVars, remoteVars, cacheVars, sdelVars>>

\* The user message generate_response stores for the turn.
user_message(t) == Message(psid[t], t, USER, penv.prompt, pts[t])

\* generate_response: the user message; commit.  With the session gone the
\* INSERT violates the foreign key and the exception leaves the handler.
generate_response_user(t) ==
    /\ ppc[t] = "user"
    /\ ~SessionRowLocked(psid[t])
    /\ IF psid[t] \in sessions
       THEN /\ messages' =
                  messages \cup {user_message(t)}
            /\ ppc' = [ppc EXCEPT ![t] = "user_refresh"]
            /\ UNCHANGED <<presp, pcalls>>
       ELSE /\ PostEnds(t, ServerError)
            /\ UNCHANGED messages
    /\ UNCHANGED <<dataset, job, metrics, sessions, psid, pbody, now, pts>>
    /\ UNCHANGED <<runVars, newJobVars, cancelVars, dropVars, deleteVars, createVars, envVars, remoteVars, cacheVars, sdelVars>>

\* generate_response: db.refresh(user_message), a select of the row just
\* committed, which begins the transaction the assistant message is
\* inserted in.  With the row gone the refresh raises, outside the try
\* block, and the exception leaves the handler.
generate_response_user_refresh(t) ==
    /\ ppc[t] = "user_refresh"
    /\ IF user_message(t) \in messages
       THEN /\ ppc' = [ppc EXCEPT ![t] = "assistant"]
            /\ Begins(t)
            /\ UNCHANGED <<presp, pcalls>>
       ELSE /\ PostEnds(t, ServerError)
            /\ UNCHANGED <<now, pts>>
    /\ UNCHANGED <<psid, pbody>>
    /\ UNCHANGED <<dbVars, runVars, newJobVars, cancelVars, dropVars, deleteVars, createVars, envVars, remoteVars, cacheVars, sdelVars>>

\* The assistant message generate_response stores for the turn.
assistant_message(t) ==
    Message(psid[t], t, ASSISTANT,
            generate_response_text(SessionObject(psid[t]), penv), pts[t])

\* generate_response: the assistant message (the reply, or the error text
\* of the except branch); commit.  With the session gone both INSERTs
\* fail and the exception leaves the handler.
generate_response_assistant(t) ==
    /\ ppc[t] = "assistant"
    /\ ~SessionRowLocked(psid[t])
    /\ IF psid[t] \in sessions
       THEN /\ messages' = messages \cup {assistant_message(t)}
            /\ ppc' = [ppc EXCEPT ![t] = "refresh"]
            /\ UNCHANGED <<presp, pcalls>>
       ELSE /\ PostEnds(t, ServerError)
            /\ UNCHANGED messages
    /\ UNCHANGED <<dataset, job, metrics, sessions, psid, pbody, now, pts>>
    /\ UNCHANGED <<runVars, newJobVars, cancelVars, dropVars, deleteVars, createVars, envVars, remoteVars, cacheVars, sdelVars>>

\* generate_response: db.refresh of the assistant message, then the
\* response is built from it.  With the row gone the refresh raises; in
\* the except branch the exception leaves the handler, in the try block
\* the except branch's INSERT meets the missing session and raises.
generate_response_refresh(t) ==
    /\ ppc[t] = "refresh"
    /\ IF assistant_message(t) \in messages
       THEN /\ pbody' = [pbody EXCEPT
                           ![t] = ChatGenerateResponse(assistant_message(t))]
            /\ PostEnds(t, OK)
       ELSE /\ PostEnds(t, ServerError)
            /\ UNCHANGED pbody
    /\ UNCHANGED <<psid, now, pts>>
    /\ UNCHANGED <<dbVars, runVars, newJobVars, cancelVars, dropVars, deleteVars, createVars, envVars, remoteVars, cacheVars, sdelVars>>

\* ------------------------------------------------------ delete session
\* The transaction the waiting statement of delete_training_job waited
\* for is over and leaves the messages `msgs` and the sessions `sess`: as
\* for delete_session, with all the sessions that are left.
delete_training_job_resumes(msgs, sess) ==
    /\ IF dpc = "del_messages_wait"
       THEN /\ dMsgs' = dSnap \cap msgs
            /\ dpc' = "del_sessions"
            /\ UNCHANGED dSess
       ELSE IF dpc \in {"del_sessions_wait", "del_sessions_fk_wait"}
       THEN IF Referencing(sess, msgs, dMsgs) # {}
            THEN /\ dpc' = "rollback"
                 /\ dMsgs' = {}
                 /\ dSess' = {}
            ELSE /\ dpc' = "del_metrics"
                 /\ dSess' = sess
                 /\ UNCHANGED dMsgs
       ELSE UNCHANGED <<dpc, dMsgs, dSess>>
    /\ dSnap' = {}
    /\ UNCHANGED <<dread, dresp, dcalls, dSel, dMet>>

\* The delete-session request ends: its transaction is over.
SessionDeleteEnds(resp) ==
    /\ xresp' = resp
    /\ xpc' = "idle"
    /\ xcalls' = xcalls + 1
    /\ xMsgs' = {}
    /\ xSess' = {}
    /\ xSnap' = {}

\* delete_session, to the select of the session: ValueError (404) without
\* a row.
delete_session_select ==
    /\ xpc = "idle"
    /\ xcalls < MaxSessionDeletes
    /\ \E sid \in RequestableIds :
          /\ xsid' = sid
          /\ IF sid \in sessions
             THEN /\ xpc' = "messages"
                  /\ xresp' = NoResponse
                  /\ UNCHANGED <<xcalls, xMsgs, xSess, xSnap>>
             ELSE SessionDeleteEnds(NotFound)
    /\ UNCHANGED <<dbVars, runVars, newJobVars, cancelVars, dropVars, deleteVars>>
    /\ UNCHANGED <<postVars, createVars, envVars, remoteVars, cacheVars>>

\* delete_session: DELETE FROM chat_messages WHERE session_id.  The
\* statement sees the rows committed when it begins, and waits while
\* another open transaction has deleted one of them.
delete_session_messages ==
    /\ xpc = "messages"
    /\ LET snapshot == {m \in messages : m.sid = xsid}
       IN  IF snapshot \cap dMsgs # {}
           THEN /\ xSnap' = snapshot
                /\ xpc' = "messages_wait"
                /\ UNCHANGED xMsgs
           ELSE /\ xMsgs' = snapshot
                /\ xpc' = "session"
                /\ UNCHANGED xSnap
    /\ UNCHANGED <<xsid, xresp, xcalls, xSess>>
    /\ UNCHANGED <<dbVars, runVars, newJobVars, cancelVars, dropVars, deleteVars>>
    /\ UNCHANGED <<postVars, createVars, envVars, remoteVars, cacheVars>>

\* delete_session: DELETE FROM chat_sessions WHERE id.  At a row that
\* another open transaction has deleted the statement waits for that
\* transaction, holding the messages it deleted.  With the row taken the
\* foreign key of chat_messages is enforced: its query waits, the row
\* held, when it reads a message that another open transaction has deleted; a
\* message that still references the session makes the statement raise,
\* which aborts the transaction and releases its rows; the handler's
\* rollback and the response follow.
delete_session_session ==
    /\ xpc = "session"
    /\ LET refs == Referencing({xsid} \cap sessions, messages, xMsgs)
       IN  IF xsid \in dSess
           THEN /\ xpc' = "session_wait"
                /\ UNCHANGED <<xresp, xcalls, xMsgs, xSess, xSnap>>
                /\ UNCHANGED deleteVars
           ELSE IF FkWaits(refs, dMsgs)
           THEN /\ xSess' = {xsid}
                /\ xpc' = "session_fk_wait"
                /\ UNCHANGED <<xresp, xcalls, xMsgs, xSnap>>
                /\ UNCHANGED deleteVars
           ELSE IF refs # {}
           THEN /\ xpc' = "rollback"
                /\ xMsgs' = {}
                /\ xSess' = {}
                /\ UNCHANGED <<xresp, xcalls, xSnap>>
                /\ delete_training_job_resumes(messages, sessions)
           ELSE /\ xSess' = {xsid} \cap sessions
                /\ xpc' = "commit"
                /\ UNCHANGED <<xresp, xcalls, xMsgs, xSnap>>
                /\ UNCHANGED deleteVars
    /\ UNCHANGED xsid
    /\ UNCHANGED <<dbVars, runVars, newJobVars, cancelVars, dropVars>>
    /\ UNCHANGED <<postVars, createVars, envVars, remoteVars, cacheVars>>

\* delete_session: a statement has raised and the transaction is
\* aborted; the handler's "await db.rollback()" returns and the router
\* answers 500.
delete_session_rollback ==
    /\ xpc = "rollback"
    /\ SessionDeleteEnds(ServerError)
    /\ UNCHANGED xsid
    /\ UNCHANGED <<dbVars, runVars, newJobVars, cancelVars, dropVars, deleteVars>>
    /\ UNCHANGED <<postVars, createVars, envVars, remoteVars, cacheVars>>

\* delete_session: commit.  What the transaction deleted goes at once.
delete_session_commit_session_only ==
    /\ xpc = "commit"
    /\ sessions' = sessions \ xSess
    /\ SessionDeleteEnds(OK)
    /\ delete_training_job_resumes(messages, sessions \ xSess)
    /\ UNCHANGED <<dataset, job, metrics, messages, xsid>>
    /\ UNCHANGED <<runVars, newJobVars, cancelVars, dropVars>>
    /\ UNCHANGED <<postVars, createVars, envVars, remoteVars, cacheVars>>
delete_session_commit ==
    /\ xpc = "commit"
    /\ messages' = messages \ xMsgs
    /\ sessions' = sessions \ xSess
    /\ SessionDeleteEnds(OK)
    /\ delete_training_job_resumes(messages \ xMsgs, sessions \ xSess)
    /\ UNCHANGED <<dataset, job, metrics, xsid>>
    /\ UNCHANGED <<runVars, newJobVars, cancelVars, dropVars>>
    /\ UNCHANGED <<postVars, createVars, envVars, remoteVars, cacheVars>>

\* Each of the two delete requests waits for the other's transaction.
\* PostgreSQL finds the cycle when the deadlock timeout of one of the two
\* waiting statements runs out and makes that statement raise.
Deadlocked ==
    /\ xpc \in {"messages_wait", "session_wait", "session_fk_wait"}
    /\ dpc \in {"del_messages_wait", "del_sessions_wait",
                "del_sessions_fk_wait"}

\* delete_session: its waiting statement raises "deadlock detected",
\* which aborts the transaction and releases its rows, so the statement
\* of the other request goes on; the handler's rollback and the response
\* follow.
delete_session_deadlock ==
    /\ Deadlocked
    /\ xpc' = "rollback"
    /\ xMsgs' = {}
    /\ xSess' = {}
    /\ xSnap' = {}
    /\ UNCHANGED <<xresp, xcalls>>
    /\ delete_training_job_resumes(messages, sessions)
    /\ UNCHANGED xsid
    /\ UNCHANGED <<dbVars, runVars, newJobVars, cancelVars, dropVars>>
    /\ UNCHANGED <<postVars, createVars, envVars, remoteVars, cacheVars>>

\* delete_training_job: its waiting statement raises "deadlock
\* detected", which aborts the transaction and releases its rows, so the
\* statement of the other request goes on; the handler's rollback and the
\* response follow.
delete_training_job_deadlock ==
    /\ Deadlocked
    /\ dpc' = "rollback"
    /\ dMsgs' = {}
    /\ dSess' = {}
    /\ dSnap' = {}
    /\ UNCHANGED <<dresp, dcalls, dSel, dMet>>
    /\ delete_session_resumes(messages, sessions)
    /\ UNCHANGED dread
    /\ UNCHANGED <<dbVars, runVars, newJobVars, cancelVars, dropVars>>
    /\ UNCHANGED <<postVars, createVars, envVars, remoteVars, cacheVars>>

\* ------------------------------------------------- the standard tier
\* The requests that reach _generate_with_model for the job.
Requests == 1..MaxRequests

\* A cache (a dict keyed by job id) without an entry of the job; with one
\* it is the set of the one object stored under the job's key.
NoEntry == {}

\* The positions inside _load_model: awaiting the tokenizer, the PEFT
\* model, the regular model.
Loading == {"tokenizer", "peft", "regular"}

\* get_chat_service: the dependency of every chat route returns a new
\* ChatService, whose __init__ makes its caches empty dicts.
get_chat_service(r) ==
    /\ gpc[r] = "none"
    /\ gpc' = [gpc EXCEPT ![r] = "service"]
    /\ model_cache' = [model_cache EXCEPT ![r] = NoEntry]
    /\ tokenizer_cache' = [tokenizer_cache EXCEPT ![r] = NoEntry]
    /\ UNCHANGED <<gused, gtext, gload, loads>>
    /\ UNCHANGED <<dbVars, runVars, newJobVars, cancelVars, dropVars, deleteVars>>
    /\ UNCHANGED <<postVars, createVars, envVars, remoteVars, sdelVars>>

\* The call returns `text`; `handle` holds the model it generated with.
GenerateReturns(r, text, handle) ==
    /\ gpc' = [gpc EXCEPT ![r] = "done"]
    /\ gtext' = [gtext EXCEPT ![r] = text]
    /\ gused' = [gused EXCEPT ![r] = handle]

\* The text of a call whose model is there: the generation runs without an
\* await and either raises or returns.
Generated(gen) ==
    generate_with_model(TRUE, "ok", gen, penv.prompt, penv.has_new,
                        penv.new_text)

\* The text of a call whose load ended with `load`.
NotLoaded(load) ==
    generate_with_model(FALSE, load, "ok", penv.prompt, penv.has_new,
                        penv.new_text)

\* _generate_with_model, to "if job_id not in self.model_cache": with an
\* entry it generates at once, without one it awaits _load_model.
generate_with_model_begin(r) ==
    /\ gpc[r] = "service"
    /\ IF model_cache[r] # NoEntry
       THEN \E gen \in {"ok", "error"} :
               GenerateReturns(r, Generated(gen), model_cache[r])
       ELSE /\ gpc' = [gpc EXCEPT ![r] = "tokenizer"]
            /\ UNCHANGED <<gused, gtext>>
    /\ UNCHANGED <<model_cache, tokenizer_cache, gload, loads>>
    /\ UNCHANGED <<dbVars, runVars, newJobVars, cancelVars, dropVars, deleteVars>>
    /\ UNCHANGED <<postVars, createVars, envVars, remoteVars, sdelVars>>

\* _load_model: the tokenizer's load returns, times out or raises.
load_model_tokenizer_caching(r) ==
    /\ gpc[r] = "tokenizer"
    /\ \E out \in {"ok", "timeout", "error"} :
          IF out = "ok"
          THEN /\ gpc' = [gpc EXCEPT ![r] = "peft"]
               /\ tokenizer_cache' = [tokenizer_cache EXCEPT ![r] = {r}]
               /\ UNCHANGED <<gused, gtext, gload>>
          ELSE /\ GenerateReturns(r, NotLoaded(out), NoEntry)
               /\ gload' = [gload EXCEPT ![r] = out]
               /\ UNCHANGED tokenizer_cache
    /\ UNCHANGED <<model_cache, loads>>
    /\ UNCHANGED <<dbVars, runVars, newJobVars, cancelVars, dropVars, deleteVars>>
    /\ UNCHANGED <<postVars, createVars, envVars, remoteVars, sdelVars>>
load_model_tokenizer(r) ==
    /\ gpc[r] = "tokenizer"
    /\ \E out \in {"ok", "timeout", "error"} :
          IF out = "ok"
          THEN /\ gpc' = [gpc EXCEPT ![r] = "peft"]
               /\ UNCHANGED <<gused, gtext, gload>>
          ELSE /\ GenerateReturns(r, NotLoaded(out), NoEntry)
               /\ gload' = [gload EXCEPT ![r] = out]
    /\ UNCHANGED <<model_cache, tokenizer_cache, loads>>
    /\ UNCHANGED <<dbVars, runVars, newJobVars, cancelVars, dropVars, deleteVars>>
    /\ UNCHANGED <<postVars, createVars, envVars, remoteVars, sdelVars>>

\* _load_model caches the model and the tokenizer it loaded, and
\* _generate_with_model generates with the cached entry; no await between.
LoadedAndGenerated(r) ==
    /\ loads' = loads + 1
    /\ model_cache' = [model_cache EXCEPT ![r] = {loads + 1}]
    /\ tokenizer_cache' = [tokenizer_cache EXCEPT ![r] = {r}]
    /\ gload' = [gload EXCEPT ![r] = "ok"]
    /\ \E gen \in {"ok", "error"} :
          GenerateReturns(r, Generated(gen), {loads + 1})

\* _load_model: the PEFT load returns or times out; when it raises
\* anything else the regular load is tried.
load_model_peft(r) ==
    /\ gpc[r] = "peft"
    /\ \E out \in {"ok", "timeout", "error"} :
          IF out = "ok"
          THEN LoadedAndGenerated(r)
          ELSE IF out = "timeout"
          THEN /\ GenerateReturns(r, NotLoaded("timeout"), NoEntry)
               /\ gload' = [gload EXCEPT ![r] = "timeout"]
               /\ UNCHANGED <<model_cache, tokenizer_cache, loads>>
          ELSE /\ gpc' = [gpc EXCEPT ![r] = "regular"]
               /\ UNCHANGED <<gused, gtext, gload>>
               /\ UNCHANGED <<model_cache, tokenizer_cache, loads>>
    /\ UNCHANGED <<dbVars, runVars, newJobVars, cancelVars, dropVars, deleteVars>>
    /\ UNCHANGED <<postVars, createVars, envVars, remoteVars, sdelVars>>

\* _load_model: the regular load returns, times out or raises.
load_model_regular(r) ==
    /\ gpc[r] = "regular"
    /\ \E out \in {"ok", "timeout", "error"} :
          IF out = "ok"
          THEN LoadedAndGenerated(r)
          ELSE /\ GenerateReturns(r, NotLoaded(out), NoEntry)
               /\ gload' = [gload EXCEPT ![r] = out]
               /\ UNCHANGED <<model_cache, tokenizer_cache, loads>>
    /\ UNCHANGED <<dbVars, runVars, newJobVars, cancelVars, dropVars, deleteVars>>
    /\ UNCHANGED <<postVars, createVars, envVars, remoteVars, sdelVars>>

\* ------------------------------------- direct calls of the remote tier
\* OllamaService.generate has not ended.
NoOutcome == [kind |-> "none", response |-> <<>>]

\* The texts the Ollama service answers with.
OllamaTexts == UNION {[1..n -> {Blank, "hi"}] : n \in 0..MaxWords}

\* How OllamaService.generate ends: the service answers 200 with a
\* "response", or with a body without one; the POST fails (the service is
\* down or unhealthy, it times out, it answers an error status:
\* httpx.HTTPError); or anything else is raised (the body is not JSON).
OllamaOutcomes ==
    {[kind |-> "returned", response |-> w] : w \in OllamaTexts}
    \cup {[kind |-> k, response |-> <<>>] :
             k \in {"no_response_key", "http_error", "error"}}

\* OllamaService.generate: the parsed body, or an Exception raised for
\* either kind of failure.
ollama_generate(out) ==
    [raised |-> out.kind \in {"http_error", "error"},
     response |-> IF out.kind = "returned" THEN out.response ELSE <<>>]

\* _generate_with_ollama, to "await ollama.generate(...)".
generate_with_ollama_begin(r) ==
    /\ opc[r] = "none"
    /\ opc' = [opc EXCEPT ![r] = "generate"]
    /\ UNCHANGED <<oout, otext>>
    /\ UNCHANGED <<dbVars, runVars, newJobVars, cancelVars, dropVars, deleteVars>>
    /\ UNCHANGED <<postVars, createVars, envVars, cacheVars, sdelVars>>

\* _generate_with_ollama: OllamaService.generate ends and the call
\* returns its text.
generate_with_ollama_returns(r) ==
    /\ opc[r] = "generate"
    /\ \E out \in OllamaOutcomes :
          LET result == ollama_generate(out)
          IN  /\ oout' = [oout EXCEPT ![r] = out]
              /\ otext' = [otext EXCEPT ![r] =
                     generate_with_ollama(~result.raised, result.response)]
    /\ opc' = [opc EXCEPT ![r] = "done"]
    /\ UNCHANGED <<dbVars, runVars, newJobVars, cancelVars, dropVars, deleteVars>>
    /\ UNCHANGED <<postVars, createVars, envVars, cacheVars, sdelVars>>

\* -------------------------------------------------------- specifications
\* No request in flight, no background task.
IdleHandlers ==
    /\ rpc = "none" /\ err = NULL /\ global_step = 0 /\ pending = {}
    /\ writing = {} /\ joblock = NoLock
    /\ picked = "none" /\ trainCalls = 0
    /\ jpc = "none" /\ jresp = NoResponse
    /\ ddpc = "none" /\ ddresp = NoResponse
    /\ cpc = "idle" /\ cread = "none" /\ cresp = NoResponse /\ ccalls = 0
    /\ dpc = "idle" /\ dread = "none" /\ dresp = NoResponse /\ dcalls = 0
    /\ dSel = {} /\ dMsgs = {} /\ dSess = {} /\ dMet = {} /\ dSnap = {}
    /\ ppc = [t \in Turns |-> "idle"]
    /\ psid = [t \in Turns |-> 0]
    /\ presp = [t \in Turns |-> NoResponse]
    /\ pcalls = 0
    /\ pbody = [t \in Turns |-> {}]
    /\ now = 1
    /\ pts = [t \in Turns |-> 0]
    /\ sreq = NoRequest /\ sresp = NoReply /\ spath = NULL /\ scalls = 0
    /\ sremote = "none"
    /\ gpc = [r \in Requests |-> "none"]
    /\ model_cache = [r \in Requests |-> NoEntry]
    /\ tokenizer_cache = [r \in Requests |-> NoEntry]
    /\ gused = [r \in Requests |-> NoEntry]
    /\ gtext = [r \in Requests |-> EmptyText]
    /\ gload = [r \in Requests |-> "none"]
    /\ loads = 0
    /\ opc = [r \in Requests |-> "none"]
    /\ oout = [r \in Requests |-> NoOutcome]
    /\ otext = [r \in Requests |-> EmptyText]
    /\ xpc = "idle" /\ xsid = 0 /\ xresp = NoResponse /\ xcalls = 0
    /\ xMsgs = {} /\ xSess = {} /\ xSnap = {}

\* A fresh store: the dataset is uploaded, no job yet.
Init ==
    /\ dataset = TRUE
    /\ job = NoJob
    /\ metrics = {}
    /\ sessions = {}
    /\ messages = {}
    /\ IdleHandlers
    /\ config = DefaultConfig
    /\ penv = DefaultEnv

Next ==
    \/ create_training_job_select
    \/ create_training_job_commit
    \/ create_training_job_refresh
    \/ delete_dataset_select
    \/ delete_dataset_commit
    \/ start_training_select
    \/ start_training_running
    \/ start_training_dataset
    \/ run_training_output_dir
    \/ run_training_status
    \/ run_training_ready
    \/ run_training_raises
    \/ trainer_train
    \/ trainer_train_raises
    \/ run_training_complete
    \/ update_job_error_execute
    \/ update_job_error
    \/ save_metrics_safely_execute
    \/ save_metrics_safely
    \/ save_metrics_fails
    \/ cancel_training_job_select
    \/ cancel_training_job_commit
    \/ delete_training_job_select
    \/ delete_training_job_sessions
    \/ delete_training_job_del_sessions
    \/ delete_training_job_metrics
    \/ delete_training_job_commit

Spec == Init /\ [][Next]_vars

\* The rows a stored database can hold for the job: any status, with or
\* without a model path; sessions with or without a stored turn; a metric.
StoredJobs ==
    {[NewJob EXCEPT !.status = st, !.model_path = mp] :
        st \in TrainingStatus, mp \in {NULL, FinalModelPath}}
StoredTurn(sid) ==
    {Message(sid, 0, USER, <<"hello">>, 0),
     Message(sid, 0, ASSISTANT, ErrorText, 1)}
StoredMetric == [cb |-> 0, step |-> 1, epoch |-> 0]

InitStore ==
    /\ dataset = TRUE
    /\ job \in {{j} : j \in StoredJobs}
    /\ sessions \in SUBSET SessionIds
    /\ messages \in {UNION {StoredTurn(sid) : sid \in S} : S \in SUBSET sessions}
    /\ metrics \in {{}, {StoredMetric}}
    /\ IdleHandlers
    /\ config = DefaultConfig
    /\ penv = DefaultEnv

\* The requests on a stored database: cancel, delete, create-session and
\* one chat turn.
NextStore ==
    \/ cancel_training_job_select
    \/ cancel_training_job_commit
    \/ delete_training_job_select
    \/ delete_training_job_sessions
    \/ delete_training_job_messages
    \/ delete_training_job_del_sessions
    \/ delete_training_job_rollback
    \/ delete_training_job_metrics
    \/ delete_training_job_commit
    \/ generate_response_select(1)
    \/ generate_response_user(1)
    \/ generate_response_user_refresh(1)
    \/ generate_response_assistant(1)
    \/ generate_response_refresh(1)
    \/ create_session

SpecStore == InitStore /\ [][NextStore]_vars

\* The chat requests on the sessions of a completed job, the turn meeting
\* any of the outcomes of TurnEnvs.
InitTurn ==
    /\ dataset = TRUE
    /\ job = {CompletedRow(NewJob)}
    /\ metrics = {}
    /\ sessions = SessionIds
    /\ messages \in {{}, UNION {StoredTurn(sid) : sid \in SessionIds}}
    /\ IdleHandlers
    /\ config = DefaultConfig
    /\ penv \in TurnEnvs

NextTurn ==
    \/ create_session
    \/ \E t \in Turns : generate_response_select(t)
    \/ \E t \in Turns : generate_response_user(t)
    \/ \E t \in Turns : generate_response_user_refresh(t)
    \/ \E t \in Turns : generate_response_assistant(t)
    \/ \E t \in Turns : generate_response_refresh(t)

SpecTurn == InitTurn /\ [][NextTurn]_vars

\* The chat turns on the sessions of a completed job by what decides the
\* tier: the state of the Neural Engine and of the Ollama service.
DispatchEnvs ==
    {[DefaultEnv EXCEPT !.ne = n, !.ollama_ok = o] :
        n \in {"unavailable", "load_fails", "fails", "ok"}, o \in BOOLEAN}

InitDispatch ==
    /\ dataset = TRUE
    /\ job = {CompletedRow(NewJob)}
    /\ metrics = {}
    /\ sessions = SessionIds
    /\ messages \in {{}, UNION {StoredTurn(sid) : sid \in SessionIds}}
    /\ IdleHandlers
    /\ config = DefaultConfig
    /\ penv \in DispatchEnvs

NextDispatch ==
    \/ \E t \in Turns : generate_response_select(t)
    \/ \E t \in Turns : generate_response_user(t)
    \/ \E t \in Turns : generate_response_user_refresh(t)
    \/ \E t \in Turns : generate_response_assistant(t)
    \/ \E t \in Turns : generate_response_refresh(t)

SpecDispatch == InitDispatch /\ [][NextDispatch]_vars

\* The requests that call the standard tier for the job's model, each
\* through the ChatService of its own HTTP request.
NextCache ==
    \E r \in Requests :
       \/ get_chat_service(r)
       \/ generate_with_model_begin(r)
       \/ load_model_tokenizer(r)
       \/ load_model_peft(r)
       \/ load_model_regular(r)

\* The store of a completed job and its sessions, no call begun, and the
\* prompt and the generated text the calls meet.
InitCache ==
    /\ dataset = TRUE
    /\ job = {CompletedRow(NewJob)}
    /\ metrics = {}
    /\ sessions = SessionIds
    /\ messages = {}
    /\ IdleHandlers
    /\ config = DefaultConfig
    /\ penv \in {[DefaultEnv EXCEPT !.prompt = p, !.new_text = t] :
                    p \in Prompts, t \in NewTexts}

SpecCache == InitCache /\ [][NextCache]_vars

\* The requests that call the remote tier, each a call of its own.
NextRemote ==
    \E r \in Requests :
       \/ generate_with_ollama_begin(r)
       \/ generate_with_ollama_returns(r)

SpecRemote == Init /\ [][NextRemote]_vars

\* The history of the sessions of a completed job under chat turns,
\* delete-session requests and delete-job requests that overlap.
InitHistory ==
    /\ dataset = TRUE
    /\ job = {CompletedRow(NewJob)}
    /\ metrics = {}
    /\ sessions = SessionIds
    /\ messages \in {{}, UNION {StoredTurn(sid) : sid \in SessionIds}}
    /\ IdleHandlers
    /\ config = DefaultConfig
    /\ penv = DefaultEnv

NextHistory ==
    \/ \E t \in Turns : generate_response_select(t)
    \/ \E t \in Turns : generate_response_user(t)
    \/ \E t \in Turns : generate_response_user_refresh(t)
    \/ \E t \in Turns : generate_response_assistant(t)
    \/ \E t \in Turns : generate_response_refresh(t)
    \/ delete_session_select
    \/ delete_session_messages
    \/ delete_session_session
    \/ delete_session_deadlock
    \/ delete_session_rollback
    \/ delete_session_commit
    \/ delete_training_job_select
    \/ delete_training_job_sessions
    \/ delete_training_job_messages
    \/ delete_training_job_del_sessions
    \/ delete_training_job_deadlock
    \/ delete_training_job_rollback
    \/ delete_training_job_metrics
    \/ delete_training_job_commit

SpecHistory == InitHistory /\ [][NextHistory]_vars

\* The steps of the background task start_training(job_id): FastAPI runs a
\* queued background task after the response is sent, every await of the
\* task returns (the database answers), and every external call returns or
\* raises.
start_training ==
    \/ start_training_select
    \/ start_training_running
    \/ start_training_dataset
    \/ run_training_output_dir
    \/ run_training_status
    \/ run_training_ready
    \/ run_training_raises
    \/ trainer_train
    \/ trainer_train_raises
    \/ run_training_complete
    \/ update_job_error_execute
    \/ update_job_error

\* The steps of the life of a job, with at most MaxFairCalls cancel requests
\* and as many delete requests.
NextFair ==
    \/ create_training_job_select
    \/ create_training_job_commit
    \/ create_training_job_refresh
    \/ delete_dataset_select
    \/ delete_dataset_commit
    \/ start_training_select
    \/ start_training_running
    \/ start_training_dataset
    \/ run_training_output_dir
    \/ run_training_status
    \/ run_training_ready
    \/ run_training_raises
    \/ trainer_train
    \/ trainer_train_raises
    \/ run_training_complete
    \/ update_job_error_execute
    \/ update_job_error
    \/ save_metrics_safely_execute
    \/ save_metrics_safely
    \/ save_metrics_fails
    \/ ccalls < MaxFairCalls /\ cancel_training_job_select
    \/ cancel_training_job_commit
    \/ dcalls < MaxFairCalls /\ delete_training_job_select
    \/ delete_training_job_sessions
    \/ delete_training_job_del_sessions
    \/ delete_training_job_metrics
    \/ delete_training_job_commit

\* The life of a job under a fair event loop: a background task that can
\* take a step eventually takes one, and a progress writer whose statements
\* ran eventually commits.
SpecFair ==
    /\ Init /\ [][NextFair]_vars
    /\ WF_vars(create_training_job)
    /\ WF_vars(start_training)
    /\ WF_vars(save_metrics_safely)

\* A fresh store and a job over any dataset, batch size and base model
\* whose training takes at most MaxSteps steps.
InitSteps ==
    /\ dataset = TRUE
    /\ job = NoJob
    /\ metrics = {}
    /\ sessions = {}
    /\ messages = {}
    /\ IdleHandlers
    /\ config \in JobConfigs
    /\ penv = DefaultEnv

SpecSteps == InitSteps /\ [][Next]_vars


\* ================================================================ claims

\* C1: once the job's status is terminal, its progress, current_epoch,
\* current_step, error text and model path never change again, whatever
\* the runner, the progress writers and the cancel request do.
C1_TerminalFrozen ==
    [][\A j \in job, k \in job' :
          j.status \in Terminal =>
             /\ k.progress = j.progress
             /\ k.current_epoch = j.current_epoch
             /\ k.current_step = j.current_step
             /\ k.error_message = j.error_message
             /\ k.model_path = j.model_path]_vars

\* C2: the status changes only along pending -> running, running ->
\* completed, running -> failed, pending -> cancelled and running ->
\* cancelled; no step moves a job out of a terminal status.
LegalTransitions ==
    {<<PENDING, RUNNING>>, <<RUNNING, COMPLETED>>, <<RUNNING, FAILED>>,
     <<PENDING, CANCELLED>>, <<RUNNING, CANCELLED>>}
C2_LegalTransitionsOnly ==
    [][\A j \in job, k \in job' :
          k.status # j.status => <<j.status, k.status>> \in LegalTransitions]_vars

\* A cancel request returns its response in this step.
CancelReturns == ccalls' = ccalls + 1

\* C3 as stated: a cancel request on an existing job succeeds, making the
\* status cancelled, exactly when the status it found is pending or
\* running; otherwise it answers an error and leaves the job alone.
C3_CancelIffPendingOrRunning ==
    [][(CancelReturns /\ cread' \in TrainingStatus) =>
          /\ (cresp' = OK) <=> (cread' \in {PENDING, RUNNING})
          /\ cresp' = OK => \A k \in job' : k.status = CANCELLED
          /\ cresp' # OK => job' = job]_vars

\* C3 as amended: a cancel request succeeds, making the status cancelled,
\* exactly when the status it found is pending or running and the job row
\* still exists when its update is flushed; otherwise (a terminal status,
\* or a job deleted meanwhile) it answers an error and changes nothing.
C3_CancelIffPendingOrRunningAndPresent ==
    [][(CancelReturns /\ cread' \in TrainingStatus) =>
          /\ (cresp' = OK) <=> (cread' \in {PENDING, RUNNING} /\ job # NoJob)
          /\ cresp' = OK => (job' # NoJob /\ \A k \in job' : k.status = CANCELLED)
          /\ cresp' # OK => job' = job
          /\ cread' \in Terminal => cresp' = BadRequest]_vars

\* C3's case: a first cancel succeeded on a running job and a second one
\* was refused because the job is cancelled.
C3_Witness ==
    /\ ccalls = 2
    /\ cread = CANCELLED
    /\ cresp = BadRequest
    /\ picked = PENDING
    /\ \E j \in job : j.status = CANCELLED

\* The select step of a delete request.
DeleteSelects == dpc = "idle" /\ (dpc' # "idle" \/ dcalls' = dcalls + 1)

\* C4: a delete request that finds the job running answers the refusal and
\* ends there: the job, its metrics, its sessions and their messages are
\* as before.
C4_RunningDeleteRefused ==
    [][(DeleteSelects /\ \E j \in job : j.status = RUNNING) =>
          /\ dresp' = BadRequest
          /\ dpc' = "idle"
          /\ dcalls' = dcalls + 1
          /\ dbVars' = dbVars]_vars

\* C4's case: a refused delete of a running job that has a metric, a
\* session and messages, all still there.
C4_Witness ==
    /\ dresp = BadRequest
    /\ dread = RUNNING
    /\ \E j \in job : j.status = RUNNING
    /\ metrics # {}
    /\ sessions # {}
    /\ messages # {}

\* C5: a delete request on a job it found in a terminal status removes the
\* job, all its metrics, all its sessions and all their messages in one
\* step, after which get_training_job answers 404.
C5_TerminalDeleteRemovesAll ==
    [][(dpc = "commit" /\ dread \in Terminal /\ dresp' = OK) =>
          /\ job' = NoJob
          /\ metrics' = {}
          /\ sessions' = {}
          /\ messages' = {}
          /\ get_training_job' = NotFound]_vars

\* C6: the model path is set exactly when the status is completed.
C6_PathIffCompleted ==
    \A j \in job : (j.model_path # NULL) <=> (j.status = COMPLETED)

\* C7: a completed job has a model path: the write that makes a job
\* completed records the path with it.
C7_CompletedHasPath ==
    \A j \in job : j.status = COMPLETED => j.model_path # NULL

\* C7's case: the runner finished and the job is completed.
C7_Witness ==
    /\ rpc = "done"
    /\ \E j \in job : j.status = COMPLETED /\ j.model_path = FinalModelPath

\* C8: a failed job has a non-empty error text, whatever made it fail.
C8_FailedHasErrorText ==
    \A j \in job : j.status = FAILED => j.error_message \notin {NULL, ""}

\* C9: the training computation is invoked at most once for the job, and a
\* job the runner finds cancelled is not executed: no training, and its
\* status stays cancelled.
C9_NoExecutionOfCancelledJob ==
    /\ trainCalls <= 1
    /\ picked = CANCELLED =>
          /\ trainCalls = 0
          /\ \A j \in job : j.status = CANCELLED

\* C10: an exception raised during the background execution is caught in
\* the runner, whose next two steps, the UPDATE and its commit, record the
\* failed status with the exception's message on the job's row (if the row
\* still exists) and end the task; the task never ends by an exception.
C10_ExceptionsBecomeFailed ==
    /\ [](rpc # "crashed")
    /\ [][(rpc = "error" /\ rpc' # "error") =>
             /\ rpc' = "error_commit"
             /\ job' = job]_vars
    /\ [][(rpc = "error_commit" /\ rpc' # "error_commit") =>
             /\ rpc' = "done"
             /\ job = NoJob <=> job' = NoJob
             /\ \A k \in job' : k.status = FAILED /\ k.error_message = err]_vars

\* C10's case: the computation raised and the job is failed with the
\* exception's message.
C10_Witness ==
    /\ rpc = "done"
    /\ err \in ExcMsgs
    /\ trainCalls = 1
    /\ \E j \in job : j.status = FAILED /\ j.error_message = err

\* C11: under a fair scheduler, with external calls that return or raise,
\* a submitted job that is pending or running eventually is in a terminal
\* status (or is deleted): it never stays pending or running forever.
C11_EventuallyTerminal ==
    (\E j \in job : j.status \in {PENDING, RUNNING})
        ~> (\A j \in job : j.status \in Terminal)

\* C11's case: the background task ran to its end while cancel requests
\* were served, and the job is in a terminal status.
C11_Witness ==
    /\ rpc = "done"
    /\ picked = PENDING
    /\ ccalls = MaxFairCalls
    /\ \E j \in job : j.status \in Terminal

\* Order of two Float values held as rationals.
LeqRat(a, b) == a[1] * b[2] <= b[1] * a[2]

\* C12: the persisted progress never decreases and stays within [0, 100],
\* and the write made for the log callback of step k leaves the job's
\* progress at k / max_steps * 100.
C12_ProgressFollowsCallbacks ==
    [][\A j \in job, n \in job' :
          /\ LeqRat(j.progress, n.progress)
          /\ LeqRat(<<0, 1>>, n.progress)
          /\ LeqRat(n.progress, <<100, 1>>)
          /\ \A k \in pending \ pending' :
                metrics' # metrics => n.progress = StepProgress(k, MaxSteps)]_vars

\* A create-session request returns its response in this step.
CreateReturns == scalls' = scalls + 1

\* The validation texts: a body that names no binding, or both.
ErrBothBindings == "Only one of job_id or model_name should be provided"
ValidationError(resp) ==
    resp.code = BadRequest /\ resp.detail \in {ErrNoBinding, ErrBothBindings}

\* C13: a create-session request that names both a job and a model of the
\* remote service is answered with a validation error, and no session is
\* persisted.
C13_BothBindingsRejected ==
    [][(CreateReturns /\ sreq'.job_id # NULL /\ sreq'.model_name # NULL) =>
          /\ ValidationError(sresp')
          /\ dbVars' = dbVars]_vars

\* C14: a create-session request that names neither a job nor a model of
\* the remote service is answered with a validation error, and no session
\* is persisted.
C14_NoBindingRejected ==
    [][(CreateReturns /\ sreq'.job_id = NULL /\ sreq'.model_name = NULL) =>
          /\ ValidationError(sresp')
          /\ dbVars' = dbVars]_vars

\* C14's case: a request without a binding was refused on a store that
\* holds a job with a model and a session.
C14_Witness ==
    /\ scalls = 1
    /\ sreq = [job_id |-> NULL, model_name |-> NULL]
    /\ sresp = Reply(BadRequest, ErrNoBinding)
    /\ sessions # {}
    /\ \E j \in job : j.model_path # NULL

\* C15: a create-session request bound to a job succeeds only if the job
\* exists and has a model path; for an unknown job or a job without a model
\* path it answers an error and persists nothing; for a completed job with
\* a model path it persists a session that carries the job's model path.
C15_JobBoundSession ==
    [][(CreateReturns /\ sreq'.job_id # NULL /\ sreq'.model_name = NULL) =>
          /\ sresp'.code = OK =>
                \E j \in job : j.model_path # NULL
          /\ (\A j \in job : j.model_path = NULL) =>
                /\ sresp'.code \in {BadRequest, NotFound}
                /\ dbVars' = dbVars
          /\ \A j \in job :
                (j.status = COMPLETED /\ j.model_path # NULL) =>
                   /\ sresp'.code = OK
                   /\ sessions' # sessions
                   /\ spath' = j.model_path]_vars

\* Turn t returns its response in this step.
PostReturns(t) == presp[t] = NoResponse /\ presp'[t] # NoResponse

\* The turn's accelerated tier fails and the cleaned output of its standard
\* tier is empty.
CleanedOutputEmpty(env) ==
    /\ env.ne = "load_fails"
    /\ env.load = "ok"
    /\ env.gen = "ok"
    /\ CleanedText(env.has_new, env.new_text) = EmptyText

\* C16: a turn on an existing session, whatever the tiers do, persists an
\* assistant message with a non-empty text and returns it; when the
\* accelerated tier fails and the cleaned output of the standard tier is
\* empty, the text is the lexical fallback for the prompt.
C16_AlwaysAReply ==
    [][\A t \in Turns :
          (PostReturns(t) /\ psid'[t] \in sessions) =>
             /\ presp'[t] = OK
             /\ \E m \in messages' \cap pbody'[t] :
                   /\ m.sid = psid'[t]
                   /\ m.turn = t
                   /\ m.role = ASSISTANT
                   /\ m.content # EmptyText
                   /\ CleanedOutputEmpty(penv) =>
                         m.content = LexicalFallback(penv.prompt)]_vars

C18_SingleFlight ==
    /\ Cardinality({r \in Requests : gpc[r] \in Loading}) <= 1
    /\ loads <= 1
    /\ \A r1, r2 \in Requests :
          (gused[r1] # NoEntry /\ gused[r2] # NoEntry) => gused[r1] = gused[r2]

\* C19: once a model is loaded for the job, no cache entry is ever dropped
\* and every request that comes to the standard tier later, in an HTTP
\* request of its own, finds the entry and loads nothing.
C19_EntryStays ==
    [][/\ \A r \in Requests :
             model_cache[r] # NoEntry => model_cache'[r] = model_cache[r]
       /\ \A r \in Requests :
             (loads >= 1 /\ gpc[r] = "service" /\ gpc'[r] # "service") =>
                 gpc'[r] \notin Loading]_vars

\* Message a comes next after message u in the history of u's session,
\* which get_session_messages orders by timestamp.
NextInHistory(u, a, msgs) ==
    /\ a.sid = u.sid
    /\ u.ts < a.ts
    /\ \A m \in msgs : m.sid = u.sid => ~(u.ts < m.ts /\ m.ts < a.ts)

\* The turn that wrote message m has returned its response; the stored
\* turns returned before the behaviour.
TurnOver(m) == IF m.turn \in Turns THEN presp[m.turn] # NoResponse ELSE TRUE

\* No turn is at work in session sid: every message of its history is of
\* a turn that has returned.
HistoryAtRest(sid, msgs) == \A m \in msgs : m.sid = sid => TurnOver(m)

\* C20: under every interleaving of chat turns, delete-session requests and
\* delete-job requests, every persisted user message is followed in its
\* session's history, ordered by time, by the assistant message of the
\* same turn; stated of the histories whose turns have all returned.
C20_UserFollowedByAssistant ==
    \A u \in messages :
       (u.role = USER /\ HistoryAtRest(u.sid, messages)) =>
          \E a \in messages :
             /\ a.turn = u.turn
             /\ a.role = ASSISTANT
             /\ NextInHistory(u, a, messages)

\* The delete-session request returns its response in this step.
SessionDeleteReturns == xcalls' = xcalls + 1

\* A step of the delete-session request before its response: not the end
\* of a delete-job request, which lets a waiting statement go on.
SessionDeleteGoesOn ==
    sdelVars' # sdelVars /\ dcalls' = dcalls /\ ~SessionDeleteReturns

\* C21: a delete-session request that answers 200 has removed the session
\* and every message of it, and nothing else, in that one step; one that
\* answers an error, and every step of a request before its answer, leaves
\* sessions and messages as they were; a request on an id without a session
\* answers 404.
C21_DeleteSessionAtomic ==
    [][/\ (SessionDeleteReturns /\ xresp' = OK) =>
             /\ sessions' = sessions \ {xsid'}
             /\ messages' = {m \in messages : m.sid # xsid'}
       /\ (SessionDeleteReturns /\ xresp' # OK) =>
             /\ sessions' = sessions
             /\ messages' = messages
       /\ SessionDeleteGoesOn =>
             /\ sessions' = sessions
             /\ messages' = messages
       /\ (xpc = "idle" /\ xsid' \notin sessions /\ sdelVars' # sdelVars) =>
             xresp' = NotFound]_vars

\* A delete-session request answered 200 on a session in which a turn had
\* stored its messages: the session and the messages are gone, the job is
\* not.
C21_Witness ==
    /\ xresp = OK
    /\ job # NoJob
    /\ \E t \in Turns : presp[t] = OK /\ psid[t] = xsid
    /\ sessions = {}
    /\ messages = {}

\* C22: a completed job has total_steps = (N / B) * E and a model path, and
\* total_steps, once written before training, is the value every progress
\* update writes.
C22_TotalSteps ==
    /\ [](\A j \in job :
            j.status = COMPLETED =>
               /\ j.total_steps * config.batch_size =
                     config.records * TotalEpochs
               /\ j.model_path # NULL)
    /\ [][\A j \in job : \A k \in job' :
             (j.status = RUNNING /\ j.total_steps # 0) =>
                k.total_steps = j.total_steps]_vars

\* C23: a job whose dataset is missing when the runner starts it is never
\* stored as RUNNING and never trained: the runner's steps take it from
\* PENDING to FAILED with the dataset error text.
C23_MissingDatasetFailsDirectly ==
    [][(~dataset /\ rpc \in {"queued", "loaded"}) =>
          /\ \A k \in job' : k.status # RUNNING
          /\ trainCalls' = 0
          /\ \A j \in job : \A k \in job' :
                (j.status = PENDING /\ k.status # PENDING /\ rpc' # rpc) =>
                   (k.status = FAILED /\ k.error_message = MsgNoDataset)]_vars

\* What the standard tier returns for the turn, called by a new ChatService.
StandardTierText(env) ==
    generate_with_model(FALSE, env.load, env.gen, env.prompt, env.has_new,
                        env.new_text)

\* C24: a turn on a session of the job whose accelerated artifact is
\* available and whose accelerated tier fails, in its load or in its
\* generation, persists the text of the standard tier and never the error
\* text of the accelerated tier.
C24_AcceleratedFailureFallsThrough ==
    [][\A t \in Turns :
          (PostReturns(t) /\ psid'[t] \in sessions
              /\ penv.ne \in {"load_fails", "fails"}) =>
             \E m \in messages' \cap pbody'[t] :
                /\ m.sid = psid'[t]
                /\ m.turn = t
                /\ m.role = ASSISTANT
                /\ m.content = StandardTierText(penv)
                /\ m.content # NeuralEngineErrorText]_vars

\* C25: the tiers a turn calls follow from the session's binding: for a
\* session bound to a model of the Ollama service the service alone, for a
\* session of the job never the service, the accelerated tier being tried
\* only for a session of a job whose accelerated artifact is there and
\* opens.
C25_TierFromBinding ==
    [][\A t \in Turns :
          (PostReturns(t) /\ psid'[t] \in sessions) =>
             LET session == SessionObject(psid'[t])
                 tiers == generate_response_tiers(session, penv)
             IN  /\ Attr(session, "model_name") # NULL => tiers = {"ollama"}
                 /\ Attr(session, "model_name") = NULL =>
                       "ollama" \notin tiers
                 /\ "neural_engine" \in tiers =>
                       /\ session.job_id # NULL
                       /\ penv.ne # "unavailable"]_vars

\* A turn on a session of the job has returned, the accelerated artifact
\* of the job being absent, and the Ollama service being down.
C25_Witness ==
    \E t \in Turns :
       /\ presp[t] = OK
       /\ psid[t] \in sessions
       /\ SessionObject(psid[t]).job_id # NULL
       /\ penv.ne = "unavailable"
       /\ ~penv.ollama_ok

\* C26: a call of the standard tier whose tokenizer or model load timed out
\* returns the timeout text and leaves its service's caches without an
\* entry of the job; a request that comes to the tier after a timeout
\* finds no entry and loads.
C26_LoadTimeoutGraceful ==
    [][\A r \in Requests :
          /\ (gload[r] = "none" /\ gload'[r] = "timeout") =>
                /\ gpc'[r] = "done"
                /\ gtext'[r] = TimeoutText
                /\ model_cache'[r] = NoEntry
                /\ tokenizer_cache'[r] = NoEntry
          /\ ((\E q \in Requests : gload[q] = "timeout")
                 /\ gpc[r] = "service" /\ gpc'[r] # "service") =>
                gpc'[r] = "tokenizer"]_vars

\* A request's load timed out and another request of the job has loaded
\* the model and generated with it.
C26_Witness ==
    \E q, r \in Requests :
       /\ gload[q] = "timeout"
       /\ gtext[q] = TimeoutText
       /\ gload[r] = "ok"
       /\ gused[r] # NoEntry

\* A text made only of digits and punctuation marks, a single punctuation
\* mark included.
Degenerate(text) ==
    /\ text # <<>>
    /\ \A i \in 1..Len(text) : text[i] \in Digits \cup Punctuation

\* C27: whatever the model generates, the text a call of the standard tier
\* returns is not empty and is not made only of digits and punctuation;
\* when the generated text is such, the call returns the lexical fallback
\* for the prompt.
C27_NoDegenerateReply ==
    \A r \in Requests :
       (gpc[r] = "done" /\ gload[r] = "ok") =>
          /\ gtext[r] # EmptyText
          /\ ~Degenerate(gtext[r])
          /\ (penv.new_text = <<>> \/ Degenerate(penv.new_text)) =>
                gtext[r] \in {ErrorText, LexicalFallback(penv.prompt)}

\* C28: while the job is RUNNING no committed write lowers its progress,
\* its current_epoch or its current_step, in whatever order the progress
\* writers commit.
C28_MonotoneProgress ==
    [][\A j \in job : \A k \in job' :
          (j.status = RUNNING /\ k.status = RUNNING) =>
             /\ LeqRat(j.progress, k.progress)
             /\ j.current_epoch <= k.current_epoch
             /\ j.current_step <= k.current_step]_vars

\* The writer task of one log callback ends in this step.
WriterEnds == pending' # pending /\ pending' \subseteq pending

\* C29: the writer of a log callback either appends exactly one metric row
\* and stores that row's step and epoch in the job in the same step, or
\* persists nothing.
C29_MetricAndJobTogether ==
    [][WriterEnds =>
          \/ /\ metrics \subseteq metrics'
             /\ Cardinality(metrics' \ metrics) = 1
             /\ \E k \in job' : \A m \in metrics' \ metrics :
                   k.current_step = m.step /\ k.current_epoch = m.epoch
          \/ /\ metrics' = metrics
             /\ job' = job]_vars

\* C30: the writer of a log callback never changes the job's status, and
\* one that persists nothing changes nothing at all: the runner goes on as
\* it was, the job keeps the values it had.
C30_WriterFailureSwallowed ==
    [][WriterEnds =>
          /\ \A j \in job : \A k \in job' : k.status = j.status
          /\ <<rpc, err, global_step, trainCalls>>' =
                <<rpc, err, global_step, trainCalls>>
          /\ metrics' = metrics => job' = job]_vars

\* The job completed although no writer persisted anything.
C30_Witness ==
    /\ rpc = "done"
    /\ trainCalls = 1
    /\ pending = {}
    /\ metrics = {}
    /\ \E j \in job :
          /\ j.status = COMPLETED
          /\ j.model_path = FinalModelPath
          /\ j.current_step = 0

\* C31: the training computation yields between its steps, so that a
\* request can be served between any two of them: no step of the system
\* advances the trainer's step counter by more than one; and the step that
\* advances it persists nothing, the callback's write being left to its
\* own task.
C31_RequestsBetweenSteps ==
    [][global_step' # global_step =>
          /\ global_step' = global_step + 1
          /\ metrics' = metrics
          /\ job' = job]_vars

\* A cancel request is answered with success in this step.
CancelSucceeds == CancelReturns /\ cresp' = OK

\* C32: a cancel request that succeeds changes the status column of the
\* job's row and nothing else: every other column keeps its value, the
\* job's metric rows stay as they are, and the background task, its
\* trainer and its pending writers are where they were.
C32_CancelChangesStatusOnly ==
    [][CancelSucceeds =>
          /\ job # NoJob
          /\ job' = {[Row EXCEPT !.status = CANCELLED]}
          /\ metrics' = metrics
          /\ <<dataset, sessions, messages>>' = <<dataset, sessions, messages>>
          /\ runVars' = runVars]_vars

\* A running job was cancelled after its training had stored progress and
\* metric rows, and the background task is still before its last commit.
C32_Witness ==
    /\ cresp = OK
    /\ cread = RUNNING
    /\ rpc = "trained"
    /\ metrics # {}
    /\ \E j \in job :
          /\ j.status = CANCELLED
          /\ j.current_step = MaxSteps
          /\ j.output_dir = JobOutputDir
          /\ j.error_message = NULL

\* C33: a create-session request bound to a model of the remote service
\* succeeds only if the service listed the model when it was asked; when
\* the model is not listed or the service does not answer, the request is
\* answered with the model-not-found error and persists nothing.
C33_RemoteModelMustExist ==
    [][(CreateReturns /\ sreq'.job_id = NULL /\ sreq'.model_name # NULL) =>
          /\ sremote' \in RemoteStates
          /\ sresp'.code = OK => sremote' = "present"
          /\ sessions' # sessions => sremote' = "present"
          /\ sremote' # "present" =>
                /\ sresp' = Reply(BadRequest, ErrOllamaNotFound)
                /\ dbVars' = dbVars]_vars

\* A request bound to a remote model was refused because the service did
\* not answer, on a store that holds a session.
C33_Witness ==
    /\ scalls = 1
    /\ sreq = [job_id |-> NULL, model_name |-> OllamaModel]
    /\ sremote = "unreachable"
    /\ sresp = Reply(BadRequest, ErrOllamaNotFound)
    /\ sessions = SessionIds

\* C34: the response of a chat turn that succeeds identifies both messages
\* of the turn: the user message and the assistant message it stored for
\* the session.
C34_BothMessageIds ==
    [][\A t \in Turns :
          (PostReturns(t) /\ presp'[t] = OK) =>
             /\ \E m \in pbody'[t] :
                   m.sid = psid'[t] /\ m.turn = t /\ m.role = USER
             /\ \E m \in pbody'[t] :
                   m.sid = psid'[t] /\ m.turn = t /\ m.role = ASSISTANT]_vars

\* C35: every metric row carries the step of the log callback that
\* produced it, so the rows of the job, in the order of their callbacks,
\* have strictly increasing steps.
C35_RowCarriesCallbackStep ==
    /\ \A m \in metrics : m.step = m.cb
    /\ \A m, n \in metrics : m.cb < n.cb => m.step < n.step

\* C36: every metric row belongs to a job whose row exists.
C36_MetricHasJob == metrics # {} => job # NoJob

\* C37: a background task that finds no job row, the job having been
\* deleted while it was pending, returns at once: it is done, it called
\* no training and reported no error, and there is no job row, no metric
\* row and no pending writer, then and ever after.
C37_DeletedPendingIsNoOp ==
    /\ [](picked = "absent" =>
            /\ rpc = "done"
            /\ err = NULL
            /\ trainCalls = 0
            /\ global_step = 0
            /\ pending = {}
            /\ job = NoJob
            /\ metrics = {})
    /\ [][(rpc = "queued" /\ job = NoJob /\ rpc' # rpc) =>
            /\ picked' = "absent"
            /\ dbVars' = dbVars]_vars

\* The job was deleted while pending and the background task, started
\* afterwards, found no row and ended.
C37_Witness ==
    /\ dread = PENDING
    /\ dresp = OK
    /\ picked = "absent"
    /\ rpc = "done"
    /\ job = NoJob

\* C38: the model cache and the tokenizer cache of a ChatService hold an
\* entry of the job together or not at all; they hold one only after a
\* load that succeeded, and after a load that failed or timed out they
\* hold none.
C38_CachesHoldSameKeys ==
    \A r \in Requests :
       /\ (model_cache[r] = NoEntry) <=> (tokenizer_cache[r] = NoEntry)
       /\ model_cache[r] # NoEntry => gload[r] = "ok"
       /\ gload[r] \in {"timeout", "error"} =>
             model_cache[r] = NoEntry /\ tokenizer_cache[r] = NoEntry

\* One service loaded and cached both, another one's load timed out and
\* left both caches empty.
C38_Witness ==
    \E r, q \in Requests :
       /\ model_cache[r] # NoEntry
       /\ tokenizer_cache[r] # NoEntry
       /\ gload[q] = "timeout"
       /\ gpc[q] = "done"
       /\ model_cache[q] = NoEntry

====
